---- MODULE Spec2Model ----
(***************************************************************************)
(* A model of omnical: the Julian-day-number date kernel (src/src/date.rs), *)
(* the degree-range classification of solar terms and lunar phases          *)
(* (src/src/astronomy.rs), the proleptic Gregorian calendar                 *)
(* (src/src/gregorian.rs), the calendar traits (src/src/calendar.rs) and    *)
(* the Chinese year builder, the calendar surface and the stems and         *)
(* branches (src/src/chinese.rs).                                           *)
(*                                                                          *)
(* Representation.                                                          *)
(*   - A Date is its jdn field, an integer.  The Date arithmetic is also    *)
(*     modelled on the whole u32, kept as two 16-bit limbs, under both      *)
(*     overflow policies a build can have.                                  *)
(*   - A real-valued Julian Date is kept in 24ths of a day (hours): the     *)
(*     code only ever adds 0.5 and whole-hour timezone offsets to whole     *)
(*     numbers, so 24 * jd is an integer.  The f64 expressions of the       *)
(*     Meeus routines are computed on integers scaled by their decimal      *)
(*     denominators (365.25 = 1461/4, 30.6001 = 306001/10000, ...).         *)
(*   - An ecliptic longitude is kept in 1/1000 degree.                      *)
(*   - Option<T> is a sequence: None = << >>, Some(x) = <<x>>.  An          *)
(*     operation that aborts (a failed unwrap, an index out of range)       *)
(*     yields Panic, a sequence of length 2.                                *)
(*   - The ephemeris (the astro crate behind get_sun_ecl_long and           *)
(*     get_moon_ecl_long) is an input: a sky is a record of parameters of   *)
(*     a Sun and a Moon moving at their mean rates, the Sun with an         *)
(*     optional annual speed variation, drawn from the set Skies.           *)
(***************************************************************************)
EXTENDS Integers, Sequences, FiniteSets, TLC

VARIABLES
    pc,      \* the operation that produced the current state
    sky,     \* the ephemeris the run observes
    date,    \* a Date (its jdn)
    gday,    \* a Gregorian day, or the result of a Gregorian operation
    cyear,   \* result of ChineseYear::from_y
    cyear2,  \* a second year: Year::succ of cyear, or the year an operation builds
    cmonth,  \* result of a month operation
    cday,    \* result of a Chinese day operation
    back,    \* result of converting back
    conv,    \* result of the direct conversion a step is compared with
    arg      \* the arguments of the last operation

vars == <<pc, sky, date, gday, cyear, cyear2, cmonth, cday, back, conv, arg>>

----------------------------------------------------------------------------
(* Option and abort *)

None == << >>
Some(x) == <<x>>
Panic == <<"panic", "abort">>
IsSome(o) == Len(o) = 1
IsNone(o) == Len(o) = 0
IsPanic(o) == Len(o) = 2

\* Option::unwrap: the value (still wrapped), or the abort.
Unwrap(o) == IF IsSome(o) THEN o ELSE Panic

----------------------------------------------------------------------------
(* Arithmetic helpers: f64 floor, trunc and ceiling on scaled integers *)

Floor(a, b) == a \div b
Trunc(a, b) == IF a >= 0 THEN a \div b ELSE -((-a) \div b)
\* -(-x).div_euclid(n)
CeilDiv(a, b) == -((-a) \div b)
RemEuclid(a, b) == a % b
Min(S) == CHOOSE x \in S : \A y \in S : x <= y

\* f64 -> u32 / u8 casts saturate; the upper ends lie outside the model's range
\* of days for u32.
AsU32(x) == IF x < 0 THEN 0 ELSE x
AsU8(x) == IF x < 0 THEN 0 ELSE IF x > 255 THEN 255 ELSE x
\* integer -> u8 / u16 casts truncate
WrapU8(x) == x % 256
WrapU16(x) == x % 65536

RECURSIVE SumSeq(_)
SumSeq(s) == IF s = << >> THEN 0 ELSE Head(s) + SumSeq(Tail(s))

----------------------------------------------------------------------------
(* Date kernel: src/src/date.rs *)

HoursPerDay == 24

DateFromJdn(jdn) == jdn
Jdn(d) == d

\* (jd + 0.5).floor() as u32, jd given in hours
DateFromJd(jd24) == AsU32(Floor(jd24 + 12, HoursPerDay))

\* (jd + 0.5 - tz / 24.0).floor() as u32
DateFromJdWithTz(jd24, tz) == AsU32(Floor(jd24 + 12 - tz, HoursPerDay))

\* self.jdn as f64 - 0.5 - tz / 24.0
MidnightJd(d, tz) == HoursPerDay * d - 12 - tz

\* self.jdn as f64 - tz / 24.0
NoonJd(d, tz) == HoursPerDay * d - tz

DateSucc(d) == d + 1
DatePred(d) == d - 1

\* self.jdn.saturating_add_signed(rhs)
DateAdd(d, k) == AsU32(d + k)

\* self.jdn as i32 - rhs.jdn as i32
DateSub(a, b) == a - b

\* Weekday: the discriminants Monday = 0 ... Sunday = 6
WeekdayCount == 7
Thursday == 3
Friday == 4
Sunday == 6

\* Weekday::succ
WeekdaySucc(w) == RemEuclid(w + 1, WeekdayCount)

\* Weekday::pred
WeekdayPred(w) == RemEuclid(w - 1, WeekdayCount)

\* Date::weekday: Weekday::from_repr(self.jdn.rem_euclid(7) as usize).unwrap()
DateWeekday(d) ==
    LET r == RemEuclid(d, 7)
    IN IF r < WeekdayCount THEN Some(r) ELSE Panic

----------------------------------------------------------------------------
(* Date arithmetic at the full width of jdn.  The operators above work on   *)
(* a jdn far from the ends of u32, where the builder and the calendars      *)
(* live.  Here a u32 is kept whole, as two 16-bit limbs [hi, lo] standing   *)
(* for hi * 2^16 + lo, and an i32 is an integer.  An arithmetic overflow of *)
(* `+` or `-` aborts when the build has overflow checks (the debug          *)
(* profile) and wraps when it has none (the release profile): checks is     *)
(* that choice.                                                             *)

Limb == 2 ^ 16
I32Max == (Limb \div 2 - 1) * Limb + (Limb - 1)
I32Min == -I32Max - 1

U32(hi, lo) == [hi |-> hi, lo |-> lo]
U32Min == U32(0, 0)
U32Max == U32(Limb - 1, Limb - 1)
\* the u32 of an integer in 0 .. I32Max
U32Of(n) == U32(n \div Limb, n % Limb)

\* the exact result of an addition, limb by limb with the carry; hi is out
\* of 0 .. Limb - 1 exactly when the result does not fit a u32
Carry(hi, lo) == [hi |-> hi + (lo \div Limb), lo |-> lo % Limb]
FitsU32(w) == 0 <= w.hi /\ w.hi < Limb
WrapU32(w) == [hi |-> w.hi % Limb, lo |-> w.lo]
\* `+` / `-` on u32 under the build's overflow policy
OverflowU32(checks, w) ==
    IF FitsU32(w) THEN Some(w) ELSE IF checks THEN Panic ELSE Some(WrapU32(w))

\* Date::succ: Self::new(self.jdn + 1)
DateSuccU32(checks, w) == OverflowU32(checks, Carry(w.hi, w.lo + 1))

\* Date::pred: Self::new(self.jdn - 1)
DatePredU32(checks, w) == OverflowU32(checks, Carry(w.hi, w.lo - 1))

\* add_assign taking rhs as an unsigned number: saturating_add(rhs as u32)
DateAddUnsigned(w, k) ==
    LET r == Carry(w.hi + ((k \div Limb) % Limb), w.lo + (k % Limb))
    IN IF r.hi >= Limb THEN U32Max ELSE r

\* add_assign: self.jdn.saturating_add_signed(rhs); Add<i32> for Date and
\* Add<Date> for i32 both go through it
DateAddU32(w, k) ==
    LET r == Carry(w.hi + (k \div Limb), w.lo + (k % Limb))
    IN IF r.hi < 0 THEN U32Min ELSE IF r.hi >= Limb THEN U32Max ELSE r
IntAddDate(k, w) == DateAddU32(w, k)

\* self.jdn as i32: the same 32 bits read as a signed number, in limbs
AsI32(w) == IF w.hi < Limb \div 2 THEN w ELSE [hi |-> w.hi - Limb, lo |-> w.lo]

\* Sub for Date: self.jdn as i32 - rhs.jdn as i32, an i32 subtraction
DateSubU32(checks, a, b) ==
    LET r == Carry(AsI32(a).hi - AsI32(b).hi, AsI32(a).lo - AsI32(b).lo)
        half == Limb \div 2
    IN IF -half <= r.hi /\ r.hi < half THEN Some(r.hi * Limb + r.lo)
       ELSE IF checks THEN Panic
       ELSE Some((((r.hi + half) % Limb) - half) * Limb + r.lo)

\* Date::weekday with a remainder taken modulo 8
DateWeekdayOctal(w) ==
    LET r == RemEuclid(RemEuclid(w.hi, 8) * RemEuclid(Limb, 8) + w.lo, 8)
    IN IF r < WeekdayCount THEN Some(r) ELSE Panic

\* Date::weekday on the whole u32: jdn.rem_euclid(7) from the limbs
DateWeekdayU32(w) ==
    LET r == RemEuclid(RemEuclid(w.hi, 7) * RemEuclid(Limb, 7) + w.lo, 7)
    IN IF r < WeekdayCount THEN Some(r) ELSE Panic

----------------------------------------------------------------------------
(* Astronomy enums: src/src/astronomy.rs.  A SolarTerm and a LunarPhase are *)
(* their discriminants: WinterSolstice = 0 ... MajorSnow = 23,              *)
(* NewMoon = 0 ... WaningCrescent = 7.                                      *)

MilliDeg(deg) == 1000 * deg
Circle == MilliDeg(360)

SolarTermCount == 24
LunarPhaseCount == 8
WinterSolstice == 0
NewMoon == 0

\* *self as i8 % 2 == 0
IsMidTerm(st) == st % 2 = 0

\* from_degree_range with the orders taken by floor: the boundary at begin_deg
\* is left out and the one at end_deg taken in
SolarTermFromDegreeRangeFloor(begin_deg, end_deg) ==
    LET begin_ord == Floor(begin_deg, MilliDeg(15)) + 1
        end_ord == Floor(end_deg, MilliDeg(15)) + 1
    IN IF begin_ord < end_ord
       THEN Some(RemEuclid(begin_ord - 270 \div 15, SolarTermCount))
       ELSE None

SolarTermFromDegreeRange(begin_deg, end_deg) ==
    LET begin_ord == CeilDiv(begin_deg, MilliDeg(15))
        end_ord == CeilDiv(end_deg, MilliDeg(15))
    IN IF begin_ord < end_ord
       THEN Some(RemEuclid(begin_ord - 270 \div 15, SolarTermCount))
       ELSE None

\* a remainder that keeps the sign of the dividend, Rust's `%`
RemTrunc(a, b) == IF a >= 0 THEN a % b ELSE -((-a) % b)

\* from_degree_range with `%` in place of rem_euclid: for a negative order the
\* index is negative, the discriminant of no phase
LunarPhaseFromDegreeRangeRem(begin_deg, end_deg) ==
    LET begin_ord == CeilDiv(begin_deg, MilliDeg(90))
        end_ord == CeilDiv(end_deg, MilliDeg(90))
    IN IF begin_ord < end_ord
       THEN RemTrunc(begin_ord * 2, LunarPhaseCount)
       ELSE RemTrunc(begin_ord * 2 - 1, LunarPhaseCount)

LunarPhaseFromDegreeRange(begin_deg, end_deg) ==
    LET begin_ord == CeilDiv(begin_deg, MilliDeg(90))
        end_ord == CeilDiv(end_deg, MilliDeg(90))
    IN IF begin_ord < end_ord
       THEN RemEuclid(begin_ord * 2, LunarPhaseCount)
       ELSE RemEuclid(begin_ord * 2 - 1, LunarPhaseCount)

\* SolarTerm::pred with the remainder of a truncating division
SolarTermPredTrunc(st) == RemTrunc(st - 1, SolarTermCount)

\* SolarTerm::succ and SolarTerm::pred
SolarTermSucc(st) == RemEuclid(st + 1, SolarTermCount)
SolarTermPred(st) == RemEuclid(st - 1, SolarTermCount)

\* LunarPhase::succ and LunarPhase::pred
LunarPhaseSucc(lp) == RemEuclid(lp + 1, LunarPhaseCount)
LunarPhasePred(lp) == RemEuclid(lp - 1, LunarPhaseCount)

----------------------------------------------------------------------------
(* The ephemeris.  get_sun_ecl_long and get_moon_ecl_long call the astro    *)
(* crate; here a sky fixes the Sun's and the Moon's longitude at the epoch  *)
(* (sun0, moon0, in 1/1000 degree) and the Sun's annual speed variation     *)
(* (ecc, in 1/8000 degree per hour: 0 is the mean Sun, 11 the true Sun's    *)
(* 0.033 degree per day).  The Sun advances 41.07/1000 degree per hour      *)
(* (a tropical year of 365.23 days), the Moon 549.015/1000 degree per hour  *)
(* (a synodic month of 29.5308 days).                                       *)

\* the epoch (1 November 2022, 12h UT), a year of 365.25 days, and the hours
\* from the start of the Sun's fast half-year (early October) to the epoch
EpochJd == NoonJd(2459885, 0)
HoursPerYear == HoursPerDay * 365 + 6
PerihelionLead == HoursPerDay * 28

SunAnomaly(s, h) ==
    LET q == (h + PerihelionLead) % HoursPerYear
    IN IF 2 * q < HoursPerYear
       THEN (q * s.ecc) \div 8
       ELSE ((HoursPerYear - q) * s.ecc) \div 8

SunEclLong(s, jd24) ==
    LET h == jd24 - EpochJd
    IN (s.sun0 + (h * 4107) \div 100 + SunAnomaly(s, h)) % Circle

MoonEclLong(s, jd24) ==
    LET h == jd24 - EpochJd
    IN (s.moon0 + h * 549 + (h * 15) \div 1000) % Circle

\* (moon_ecl_long - sun_ecl_long).rem_euclid(360.0)
MoonEclLongToSun(s, jd24) ==
    RemEuclid(MoonEclLong(s, jd24) - SunEclLong(s, jd24), Circle)

----------------------------------------------------------------------------
(* Event locator: Date::solar_term and Date::lunar_phase *)

\* the tail of Date::solar_term without the step back by 360 degrees
SolarTermBetweenNoWrap(curr, next) == SolarTermFromDegreeRange(curr, next)

\* the tail of Date::solar_term, given the two longitudes
SolarTermBetween(curr, next) ==
    LET curr_sun_ecl_long == IF next < curr THEN curr - Circle ELSE curr
    IN SolarTermFromDegreeRange(curr_sun_ecl_long, next)

DateSolarTerm(s, d, tz) ==
    SolarTermBetween(SunEclLong(s, MidnightJd(d, tz)),
                     SunEclLong(s, MidnightJd(DateSucc(d), tz)))

\* the tail of Date::lunar_phase, given the two elongations
LunarPhaseBetween(curr, next) ==
    LET curr_moon_ecl_long_to_sun == IF next < curr THEN curr - Circle ELSE curr
    IN LunarPhaseFromDegreeRange(curr_moon_ecl_long_to_sun, next)

DateLunarPhase(s, d, tz) ==
    LunarPhaseBetween(MoonEclLongToSun(s, MidnightJd(d, tz)),
                      MoonEclLongToSun(s, MidnightJd(DateSucc(d), tz)))

----------------------------------------------------------------------------
(* Proleptic Gregorian calendar: src/src/gregorian.rs.  A Year is its year  *)
(* number, a Month is [year, month] with month the MonthName discriminant   *)
(* 0..11, a Day is [year, month, day] with day 0-based.                     *)

\* floor(365.25 * x) and floor(30.6001 * x)
Floor36525(x) == Floor(1461 * x, 4)
Floor306001(x) == Floor(306001 * x, 10000)

\* the conversion without the century correction b: the Julian calendar
ProlepticJulianToJulianDayAt(y0, m0, d24) ==
    LET y == IF m0 > 2 THEN y0 ELSE y0 - 1
        m == IF m0 > 2 THEN m0 ELSE m0 + 12
    IN HoursPerDay * (Floor36525(y + 4716) + Floor306001(m + 1) - 1524) + d24 - 12

\* proleptic_gregorian_to_julian_day, the day d and the result in hours
ProlepticGregorianToJulianDayAt(y0, m0, d24) ==
    LET y == IF m0 > 2 THEN y0 ELSE y0 - 1
        m == IF m0 > 2 THEN m0 ELSE m0 + 12
        a == Floor(y, 100)
        b == 2 - a + Floor(a, 4)
    IN HoursPerDay * (Floor36525(y + 4716) + Floor306001(m + 1) + b - 1524) + d24 - 12

\* proleptic_gregorian_to_julian_day with a whole day d; the result in hours
ProlepticGregorianToJulianDay(y0, m0, d) ==
    ProlepticGregorianToJulianDayAt(y0, m0, HoursPerDay * d)

\* julian_day_to_proleptic_gregorian; jd in hours, the day of month in hours
JulianDayToProlepticGregorian(jd24) ==
    LET jd == jd24 + 12
        z == Trunc(jd, HoursPerDay)
        f == jd - HoursPerDay * z
        alpha == Floor(4 * z - 7468865, 146097)
        a == z + 1 + alpha - Floor(alpha, 4)
        b == a + 1524
        c == Floor(20 * b - 2442, 7305)
        d == Floor36525(c)
        e == Floor(10000 * (b - d), 306001)
        dom == HoursPerDay * (b - d - Floor306001(e)) + f
    IN IF e < 14
       THEN [y |-> c - 4716, m |-> AsU8(e - 1), dom |-> dom]
       ELSE [y |-> c - 4715, m |-> AsU8(e - 13), dom |-> dom]

GregYearLimit == 5000000

\* Calendar::from_y
GregFromY(year) ==
    IF -GregYearLimit <= year /\ year <= GregYearLimit THEN Some(year) ELSE None

GregIsLeap(year) ==
    year % 400 = 0 \/ (year % 4 = 0 /\ year % 100 # 0)

GregYearNumDays(year) == IF GregIsLeap(year) THEN 366 ELSE 365

\* Month::num_days with a leap day in every fourth year
GregMonthNumDaysJulian(mo) ==
    IF mo.month \in {0, 2, 4, 6, 7, 9, 11} THEN 31
    ELSE IF mo.month \in {3, 5, 8, 10} THEN 30
    ELSE IF mo.year % 4 = 0 THEN 29 ELSE 28

\* Month::num_days
GregMonthNumDays(mo) ==
    IF mo.month \in {0, 2, 4, 6, 7, 9, 11} THEN 31
    ELSE IF mo.month \in {3, 5, 8, 10} THEN 30
    ELSE IF GregIsLeap(mo.year) THEN 29 ELSE 28

\* Year::month via MonthName::from_ord
GregYearMonth(year, month_ord) ==
    IF month_ord >= 1 /\ month_ord <= 12
    THEN Some([year |-> year, month |-> month_ord - 1])
    ELSE None

\* Month::day
GregMonthDay(mo, day_ord) ==
    IF day_ord < 1 \/ day_ord > WrapU8(GregMonthNumDays(mo))
    THEN None
    ELSE Some([year |-> mo.year, month |-> mo.month, day |-> day_ord - 1])

\* Calendar::from_ym and Calendar::from_ymd (the trait's defaults)
GregFromYm(year, month) ==
    LET y == GregFromY(year)
    IN IF IsSome(y) THEN GregYearMonth(y[1], month) ELSE None

GregFromYmd(year, month, day) ==
    LET mo == GregFromYm(year, month)
    IN IF IsSome(mo) THEN GregMonthDay(mo[1], day) ELSE None

\* Year::day of the Gregorian year: the loop over MonthName::VARIANTS from
\* month name m on, ord the ordinal left
RECURSIVE GregYearDayFrom(_, _, _)
GregYearDayFrom(year, m, ord) ==
    IF m > 11 THEN None
    ELSE IF ord <= GregMonthNumDays([year |-> year, month |-> m])
         THEN GregMonthDay([year |-> year, month |-> m], WrapU8(ord))
         ELSE GregYearDayFrom(year, m + 1, ord - GregMonthNumDays([year |-> year, month |-> m]))

GregYearDay(year, ord) == GregYearDayFrom(year, 0, ord)

\* the trait default Day::ord_in_year of a Gregorian day: the num_days of
\* the months 1 .. the_month().ord() - 1, plus ord() (day + 1), plus 1
GregDayOrdInYear(g) ==
    WrapU16(SumSeq([m \in 1..g.month |->
                       GregMonthNumDays(GregYearMonth(g.year, m)[1])])
            + (g.day + 1) + 1)

\* impl From<Day> for Date
GregDayToDate(g) ==
    DateFromJd(ProlepticGregorianToJulianDay(g.year, g.month + 1, g.day + 1))

\* Day::from_date_with_tz: Calendar::from_ymd(y, m, d as u8).unwrap()
GregDayFromDateWithTz(d, tz) ==
    LET r == JulianDayToProlepticGregorian(MidnightJd(d, tz))
    IN Unwrap(GregFromYmd(r.y, r.m, AsU8(Trunc(r.dom, HoursPerDay))))

\* impl From<Date> for Day
GregDayFromDate(d) == GregDayFromDateWithTz(d, 0)

\* MonthName: the discriminants January = 0 ... December = 11
MonthNameCount == 12

\* from_repr of an enum with count variants; a negative discriminant cast to
\* usize is far above every variant
FromRepr(count, n) == IF n \in 0..(count - 1) THEN Some(n) ELSE None

\* MonthName::succ and MonthName::pred
MonthNameSucc(m) == FromRepr(MonthNameCount, m + 1)
MonthNamePred(m) == FromRepr(MonthNameCount, m - 1)

\* Month::succ and Day::succ
GregMonthSucc(mo) ==
    IF mo.month < 11
    THEN [year |-> mo.year, month |-> mo.month + 1]
    ELSE [year |-> mo.year + 1, month |-> 0]

GregDaySucc(g) ==
    IF g.day = WrapU8(GregMonthNumDays(g)) - 1
    THEN Unwrap(GregMonthDay(GregMonthSucc(g), 1))
    ELSE Some([year |-> g.year, month |-> g.month, day |-> g.day + 1])

----------------------------------------------------------------------------
(* Chinese year builder: src/src/chinese.rs *)

BEIJING_TZ == 8

\* the number of days a day-by-day search may run before the model gives up
SearchLimit == 40

\* a search result, or what the rest of the search finds
OrElse(found, rest) == IF IsSome(found) THEN found ELSE rest

\* The first day in a..b on which the solar term is WinterSolstice (None if
\* there is none): the while loop of get_winter_solstice, stepping upward.
RECURSIVE FirstWinterSolstice(_, _, _, _)
FirstWinterSolstice(s, a, b, tz) ==
    IF a = b
    THEN IF DateSolarTerm(s, a, tz) = Some(WinterSolstice) THEN Some(a) ELSE None
    ELSE OrElse(FirstWinterSolstice(s, a, (a + b) \div 2, tz),
                FirstWinterSolstice(s, (a + b) \div 2 + 1, b, tz))

\* The last day in a..b on which the lunar phase is NewMoon: the while loop
\* of get_prev_new_moon, stepping downward from b.
RECURSIVE LastNewMoon(_, _, _, _)
LastNewMoon(s, a, b, tz) ==
    IF a = b
    THEN IF DateLunarPhase(s, a, tz) = NewMoon THEN Some(a) ELSE None
    ELSE OrElse(LastNewMoon(s, (a + b) \div 2 + 1, b, tz),
                LastNewMoon(s, a, (a + b) \div 2, tz))

\* get_winter_solstice from its starting day g, 21 December; Panic stands
\* for a search that leaves SearchLimit
WinterSolsticeFrom(s, g, tz) ==
    IF IsPanic(g) THEN Panic
    ELSE Unwrap(FirstWinterSolstice(s, GregDayToDate(g[1]),
                                    GregDayToDate(g[1]) + SearchLimit, tz))

\* get_winter_solstice with a search that starts two days early
GetWinterSolsticeFromDec19(s, year, tz) ==
    WinterSolsticeFrom(s, Unwrap(GregFromYmd(year, 12, 19)), tz)

\* get_winter_solstice
GetWinterSolstice(s, year, tz) ==
    WinterSolsticeFrom(s, Unwrap(GregFromYmd(year, 12, 21)), tz)

\* get_prev_new_moon started a lunation before the day it is given
GetPrevNewMoonEarlier(s, d, tz) ==
    Unwrap(LastNewMoon(s, d - 30 - SearchLimit, d - 30, tz))

\* get_prev_new_moon
GetPrevNewMoon(s, d, tz) ==
    Unwrap(LastNewMoon(s, d - SearchLimit, d, tz))

\* the sweep's iteration noting the mid-term before it handles the new moon,
\* so that a mid-term on a new-moon day goes to the month that ends there
SweepEventMidTermFirst(acc, d, lp, st) ==
    LET has_mt0 == IF IsSome(st) /\ IsMidTerm(st[1]) THEN TRUE ELSE acc.has_mt
        closed == IF lp = NewMoon /\ IsSome(acc.last_nm)
                  THEN Append(acc.data, <<WrapU8(DateSub(d, acc.last_nm[1])), has_mt0>>)
                  ELSE acc.data
        last_nm == IF lp = NewMoon THEN Some(d) ELSE acc.last_nm
        has_mt == IF lp = NewMoon THEN FALSE ELSE has_mt0
    IN [data |-> closed, last_nm |-> last_nm, has_mt |-> has_mt]

\* One iteration of the sweep loop of calc_chinese_year_period_data, given
\* the day's lunar phase lp and solar term st;
\* acc = [data, last_nm, has_mt], data a sequence of <<num_days, has_mt>>.
SweepEvent(acc, d, lp, st) ==
    LET closed == IF lp = NewMoon /\ IsSome(acc.last_nm)
                  THEN Append(acc.data, <<WrapU8(DateSub(d, acc.last_nm[1])), acc.has_mt>>)
                  ELSE acc.data
        last_nm == IF lp = NewMoon THEN Some(d) ELSE acc.last_nm
        has_mt0 == IF lp = NewMoon THEN FALSE ELSE acc.has_mt
        has_mt == IF IsSome(st) /\ IsMidTerm(st[1]) THEN TRUE ELSE has_mt0
    IN [data |-> closed, last_nm |-> last_nm, has_mt |-> has_mt]

SweepDay(s, acc, d) ==
    SweepEvent(acc, d, DateLunarPhase(s, d, BEIJING_TZ), DateSolarTerm(s, d, BEIJING_TZ))

\* while d != next_ws_p1 { ...; d = d.succ() } over the days a..b in order:
\* the days up to the middle, then SweepRest over the others
RECURSIVE Sweep(_, _, _, _)
RECURSIVE SweepRest(_, _, _, _)
Sweep(s, acc, a, b) ==
    IF a > b THEN acc
    ELSE IF a = b THEN SweepDay(s, acc, a)
    ELSE SweepRest(s, Sweep(s, acc, a, (a + b) \div 2), (a + b) \div 2 + 1, b)

SweepRest(s, acc, a, b) ==
    IF Len(acc.data) >= 0 THEN Sweep(s, acc, a, b) ELSE acc

\* the leap search reporting the month after the first one without a mid-term
FirstNoMidTermShifted(data) ==
    LET c == {i \in 1..Len(data) : ~data[i][2]}
    IN IF c = {} THEN Panic ELSE Some(Min(c))

\* the leap search giving up quietly when every month has a mid-term
FirstNoMidTermOrNone(data) ==
    LET c == {i \in 1..Len(data) : ~data[i][2]}
    IN IF c = {} THEN None ELSE Some(Min(c) - 1)

\* the leap search: loop { if !data[i].1 { break Some(i) } i += 1 }, which
\* indexes past the end when every month has a mid-term
FirstNoMidTerm(data) ==
    LET c == {i \in 1..Len(data) : ~data[i][2]}
    IN IF c = {} THEN Panic ELSE Some(Min(c) - 1)

\* the result of calc_chinese_year_period_data:
\* (nm_before_last_ws, data, leap_month)
PeriodResult(first, data, leap_month) ==
    IF IsPanic(leap_month) THEN Panic
    ELSE Some([first |-> first,
               data |-> [i \in 1..Len(data) |-> data[i][1]],
               leap |-> leap_month])

\* calc_chinese_year_period_data after its sweep
PeriodOf(first, data) ==
    PeriodResult(first, data, IF Len(data) > 12 THEN FirstNoMidTerm(data) ELSE None)

\* calc_chinese_year_period_data from the new moon before the last solstice
PeriodFrom(s, nm_before_last_ws, next_ws) ==
    IF IsPanic(nm_before_last_ws) THEN Panic
    ELSE PeriodOf(nm_before_last_ws[1],
                  Sweep(s, [data |-> << >>, last_nm |-> None, has_mt |-> FALSE],
                        nm_before_last_ws[1], next_ws[1]).data)

\* calc_chinese_year_period_data between its two solstices
PeriodBetween(s, last_ws, next_ws) ==
    IF IsPanic(last_ws) \/ IsPanic(next_ws) THEN Panic
    ELSE PeriodFrom(s, GetPrevNewMoon(s, last_ws[1], BEIJING_TZ), next_ws)

\* calc_chinese_year_period_data
CalcChineseYearPeriodData(s, year) ==
    PeriodBetween(s, GetWinterSolstice(s, year - 1, BEIJING_TZ),
                     GetWinterSolstice(s, year, BEIJING_TZ))

\* the (offset, new leap month) pairs of calc_chinese_year_data
\* Off1 that never drops a third month of the first period
Off1Flat(lm1) == 2
Off1(lm1) == IF IsSome(lm1) /\ lm1[1] <= 2 THEN 3 ELSE 2
NewLeap1(lm1) == IF IsSome(lm1) /\ lm1[1] > 2 THEN Some(lm1[1] - 2) ELSE None
\* Off2 without the late-leap case: always two months of the second period
Off2Flat(lm2) == 2
Off2(lm2) == IF IsSome(lm2) /\ lm2[1] <= 2 THEN 3 ELSE 2
\* NewLeap2 that forgets a leap month found in the second period
NewLeap2Dropped(lm2) == None
NewLeap2(lm2) == IF IsSome(lm2) /\ lm2[1] <= 2 THEN Some(lm2[1] + 10) ELSE None

\* calc_chinese_year_data from its two periods: (first day, [u8; 13],
\* leap_month).  The slices abort when an offset exceeds a period's length,
\* try_into().unwrap() aborts unless the stitched vector has 13 entries.
StitchYear(p1, p2) ==
    IF IsPanic(p1) \/ IsPanic(p2) THEN Panic
    ELSE LET data1 == p1[1].data
             data2 == p2[1].data
             off1 == Off1(p1[1].leap)
             off2 == Off2(p2[1].leap)
             nlm1 == NewLeap1(p1[1].leap)
             nlm2 == NewLeap2(p2[1].leap)
         IN IF off1 > Len(data1) \/ off2 > Len(data2) THEN Panic
            ELSE LET stitched == SubSeq(data1, off1 + 1, Len(data1)) \o SubSeq(data2, 1, off2)
                     data == IF Len(stitched) = 12 THEN Append(stitched, 0) ELSE stitched
                     nlm == IF IsSome(nlm1) THEN nlm1 ELSE nlm2
                     fd == DateAdd(p1[1].first, WrapU8(SumSeq(SubSeq(data1, 1, off1))))
                 IN IF Len(data) # 13 THEN Panic
                    ELSE Some([first_day |-> fd,
                               num_days_of_months |-> data,
                               leap_month |-> IF IsSome(nlm) THEN WrapU8(nlm[1]) ELSE 13])

\* calc_chinese_year_data
CalcChineseYearData(s, year) ==
    StitchYear(CalcChineseYearPeriodData(s, year),
               CalcChineseYearPeriodData(s, year + 1))

\* Year::new with the builder's result r
YearOf(year, r) ==
    IF IsPanic(r) THEN Panic
    ELSE Some([year |-> year,
               first_day |-> r[1].first_day,
               num_days_of_months |-> r[1].num_days_of_months,
               leap_month |-> r[1].leap_month])

\* Year::new / Year::from_y
ChineseYearNew(s, year) == YearOf(year, CalcChineseYearData(s, year))

----------------------------------------------------------------------------
(* Chinese calendar surface: src/src/chinese.rs with the trait defaults of  *)
(* src/src/calendar.rs.  A Year is [year, first_day, num_days_of_months,    *)
(* leap_month], a Month is [year, month] with year a Year and month the     *)
(* 0-based slot, a Day is [month, day] with month a Month and day 0-based.  *)

\* Year::succ and Year::pred
ChineseYearSucc(s, yr) == ChineseYearNew(s, yr.year + 1)
ChineseYearPred(s, yr) == ChineseYearNew(s, yr.year - 1)

\* Year::num_months and Year::is_leap
YearNumMonths(yr) == IF yr.leap_month < 13 THEN 13 ELSE 12
YearIsLeap(yr) == yr.leap_month < 13

\* Year::month with an exclusive upper bound
YearMonthExclusive(yr, ord) ==
    IF ord >= 1 /\ ord < WrapU8(YearNumMonths(yr))
    THEN Some([year |-> yr, month |-> ord - 1])
    ELSE None

\* Year::month
YearMonth(yr, ord) ==
    IF ord >= 1 /\ ord <= WrapU8(YearNumMonths(yr))
    THEN Some([year |-> yr, month |-> ord - 1])
    ELSE None

\* the trait defaults Year::first_month, Year::last_month, Year::months
YearFirstMonth(yr) == Unwrap(YearMonth(yr, 1))
YearLastMonth(yr) == Unwrap(YearMonth(yr, WrapU8(YearNumMonths(yr))))
YearMonths(yr) ==
    LET opts == [i \in 1..WrapU8(YearNumMonths(yr)) |-> YearMonth(yr, i)]
        kept == SelectSeq(opts, IsSome)
    IN [j \in 1..Len(kept) |-> kept[j][1]]

\* Month::num_days: the array index aborts past the 13th slot
MonthNumDays(mo) == mo.year.num_days_of_months[mo.month + 1]

\* Month::is_leap
MonthIsLeap(mo) == mo.year.leap_month = mo.month

\* Month::day
MonthDay(mo, ord) ==
    IF ord > 0 /\ ord <= WrapU8(MonthNumDays(mo))
    THEN Some([month |-> mo, day |-> ord - 1])
    ELSE None

\* the trait defaults Month::first_day and Month::last_day
MonthFirstDay(mo) == Unwrap(MonthDay(mo, 1))
MonthLastDay(mo) == Unwrap(MonthDay(mo, WrapU8(MonthNumDays(mo))))

\* the trait default Year::num_days
YearNumDays(yr) ==
    LET ms == YearMonths(yr)
    IN SumSeq([j \in 1..Len(ms) |-> MonthNumDays(ms[j])])

\* the trait default Year::day: the loop over months() from its i-th month on
RECURSIVE YearDayLoop(_, _, _)
YearDayLoop(ms, i, ord) ==
    IF i > Len(ms) THEN None
    ELSE LET num_days == WrapU16(MonthNumDays(ms[i]))
         IN IF ord <= num_days
            THEN MonthDay(ms[i], WrapU8(ord))
            ELSE YearDayLoop(ms, i + 1, ord - num_days)

YearDay(yr, ord) == YearDayLoop(YearMonths(yr), 1, ord)

\* the trait defaults Year::first_day and Year::last_day
YearFirstDay(yr) == Unwrap(YearDay(yr, 1))
YearLastDay(yr) == Unwrap(YearDay(yr, WrapU16(YearNumDays(yr))))

\* self.year.succ().first_month() and self.month.succ().first_day(), given
\* the year and the month built
FirstMonthOf(y) == IF IsPanic(y) THEN Panic ELSE YearFirstMonth(y[1])
FirstDayOf(mo) == IF IsPanic(mo) THEN Panic ELSE MonthFirstDay(mo[1])

\* Month::succ that takes every year to have twelve months
MonthSuccTwelve(s, mo) ==
    IF mo.month < 12 - 1
    THEN Some([year |-> mo.year, month |-> mo.month + 1])
    ELSE FirstMonthOf(ChineseYearSucc(s, mo.year))

\* Month::succ
MonthSucc(s, mo) ==
    IF mo.month < WrapU8(YearNumMonths(mo.year)) - 1
    THEN Some([year |-> mo.year, month |-> mo.month + 1])
    ELSE FirstMonthOf(ChineseYearSucc(s, mo.year))

\* Day::succ
DaySucc(s, dy) ==
    IF dy.day < WrapU8(MonthNumDays(dy.month)) - 1
    THEN Some([month |-> dy.month, day |-> dy.day + 1])
    ELSE FirstDayOf(MonthSucc(s, dy.month))

\* From<Day> for Date adding the day's ordinal instead of its 0-based index
ChineseDayToDateByOrd(dy) ==
    LET yr == dy.month.year
    IN DateAdd(DateAdd(yr.first_day,
                       SumSeq(SubSeq(yr.num_days_of_months, 1, dy.month.month))),
               dy.day + 1)

\* impl From<Day> for Date
ChineseDayToDate(dy) ==
    LET yr == dy.month.year
    IN DateAdd(DateAdd(yr.first_day,
                       SumSeq(SubSeq(yr.num_days_of_months, 1, dy.month.month))),
               dy.day)

\* cy.day((date - cd_date) as u16 + 1).unwrap() with cd = cy.first_day()
DayOfYearAt(cy, d) ==
    IF IsPanic(cy) THEN Panic
    ELSE IF IsPanic(YearFirstDay(cy[1])) THEN Panic
    ELSE Unwrap(YearDay(cy[1],
                        WrapU16(DateSub(d, ChineseDayToDate(YearFirstDay(cy[1])[1]))) + 1))

\* Day::from_date_with_tz once cy = Year::from_y(..) is built
DayInYearOrPred(s, cy, d) ==
    IF IsPanic(cy) THEN Panic
    ELSE IF IsPanic(YearFirstDay(cy[1])) THEN Panic
    ELSE IF d >= ChineseDayToDate(YearFirstDay(cy[1])[1])
    THEN DayOfYearAt(cy, d)
    ELSE DayOfYearAt(ChineseYearPred(s, cy[1]), d)

\* Day::from_date_with_tz once gd = GregorianDay::from_date_with_tz(..) is known
DayFromGregorian(s, gd, d) ==
    IF IsPanic(gd) THEN Panic
    ELSE DayInYearOrPred(s, ChineseYearNew(s, gd[1].year), d)

\* Day::from_date_with_tz
ChineseDayFromDateWithTz(s, d, tz) ==
    DayFromGregorian(s, GregDayFromDateWithTz(d, tz), d)

\* impl From<Date> for Day
ChineseDayFromDate(s, d) == ChineseDayFromDateWithTz(s, d, BEIJING_TZ)

\* Month::from_ym and Month::from_ylm after `let year = Year::from_y(year)`:
\* y is the built year, or the abort of the builder
MonthFromYmOn(y, month) ==
    IF IsPanic(y) THEN Panic ELSE YearMonth(y[1], month)

\* from_ylm as the design text words it for a regular month: the month whose
\* number equals leap_month is taken from the slot after it
MonthFromYlmSkipAtLeap(y, leap, month) ==
    IF IsPanic(y) THEN Panic
    ELSE IF leap /\ month # y[1].leap_month
    THEN None
    ELSE IF month < y[1].leap_month
    THEN YearMonth(y[1], month)
    ELSE YearMonth(y[1], month + 1)

\* from_ylm as the design text words it for a leap month: slot month - 1
MonthFromYlmLeapBefore(y, leap, month) ==
    IF IsPanic(y) THEN Panic
    ELSE IF leap /\ month # y[1].leap_month
    THEN None
    ELSE IF month < y[1].leap_month \/ month = y[1].leap_month
    THEN YearMonth(y[1], month)
    ELSE YearMonth(y[1], month + 1)

\* from_ylm that never skips the leap slot
MonthFromYlmNoSkip(y, leap, month) ==
    IF IsPanic(y) THEN Panic
    ELSE IF leap /\ month # y[1].leap_month
    THEN None
    ELSE IF leap THEN YearMonth(y[1], month + 1)
    ELSE YearMonth(y[1], month)

MonthFromYlmOn(y, leap, month) ==
    IF IsPanic(y) THEN Panic
    ELSE IF leap /\ month # y[1].leap_month
    THEN None
    ELSE IF month < y[1].leap_month \/ (~leap /\ month = y[1].leap_month)
    THEN YearMonth(y[1], month)
    ELSE YearMonth(y[1], month + 1)

\* Month::from_ym and Month::from_ylm
MonthFromYm(s, year, month) == MonthFromYmOn(ChineseYearNew(s, year), month)
MonthFromYlm(s, year, leap, month) ==
    MonthFromYlmOn(ChineseYearNew(s, year), leap, month)

\* the and_then closure of Day::from_ymd and Day::from_ylmd
DayInMonth(mo, day) ==
    IF IsPanic(mo) THEN Panic
    ELSE IF IsNone(mo) THEN None
    ELSE IF day > 0 /\ day <= WrapU8(MonthNumDays(mo[1]))
    THEN Some([month |-> mo[1], day |-> day - 1])
    ELSE None

\* Day::from_ymd and Day::from_ylmd
DayFromYmdOn(y, month, day) == DayInMonth(MonthFromYmOn(y, month), day)
DayFromYmd(s, year, month, day) == DayFromYmdOn(ChineseYearNew(s, year), month, day)
DayFromYlmd(s, year, leap, month, day) ==
    DayInMonth(MonthFromYlm(s, year, leap, month), day)

\* impl Display for Month: the index into LEAP_NAMES (as a boolean) and the
\* index into MONTH_NAMES
MonthDisplayLeap(mo) == mo.year.leap_month < 13 /\ mo.month = mo.year.leap_month
MonthDisplayName(mo) ==
    IF mo.month < mo.year.leap_month THEN mo.month ELSE mo.month - 1

\* the derived PartialEq: a Year compares by its year number alone
YearEq(a, b) == a.year = b.year
MonthEq(a, b) == YearEq(a.year, b.year) /\ a.month = b.month
DayEq(a, b) == MonthEq(a.month, b.month) /\ a.day = b.day

----------------------------------------------------------------------------
(* The skies and the inputs of the runs *)

MaxMoonIndex == 29
Suns == {[sun0 |-> 220500, ecc |-> 0], [sun0 |-> 218000, ecc |-> 11]}
Skies == {[sun0 |-> u.sun0, ecc |-> u.ecc, moon0 |-> (k * MilliDeg(12)) % Circle] :
             u \in Suns, k \in 0..MaxMoonIndex}
FirstYear == 2023
NumYears == 2
Years == FirstYear..(FirstYear + NumYears)
U8 == 0..255

NoValue == << >>

Idle ==
    /\ date = 0
    /\ gday = NoValue /\ cyear = NoValue /\ cyear2 = NoValue
    /\ cmonth = NoValue /\ cday = NoValue /\ back = NoValue /\ conv = NoValue

----------------------------------------------------------------------------
(* Years: Year::from_y, Year::succ, Year::month, first_month, last_month,   *)
(* months                                                                   *)

InitYear ==
    /\ pc = "start"
    /\ sky \in Skies
    /\ arg \in [year : Years]
    /\ Idle

YearFromY ==
    /\ pc = "start"
    /\ pc' = "from_y"
    /\ cyear' = ChineseYearNew(sky, arg.year)
    /\ UNCHANGED <<sky, date, gday, cyear2, cmonth, cday, back, conv, arg>>

YearSuccStep ==
    /\ pc = "from_y" /\ IsSome(cyear)
    /\ pc' = "succ"
    /\ cyear2' = ChineseYearSucc(sky, cyear[1])
    /\ UNCHANGED <<sky, date, gday, cyear, cmonth, cday, back, conv, arg>>

YearMonthStep ==
    /\ pc = "from_y" /\ IsSome(cyear)
    /\ pc' = "month"
    /\ \E ord \in U8 :
          /\ arg' = [year |-> arg.year, ord |-> ord]
          /\ cmonth' = YearMonth(cyear[1], ord)
    /\ UNCHANGED <<sky, date, gday, cyear, cyear2, cday, back, conv>>

YearMonthsStep ==
    /\ pc = "from_y" /\ IsSome(cyear)
    /\ pc' = "months"
    /\ cmonth' = [first |-> YearFirstMonth(cyear[1]),
                  last |-> YearLastMonth(cyear[1]),
                  months |-> YearMonths(cyear[1])]
    /\ UNCHANGED <<sky, date, gday, cyear, cyear2, cday, back, conv, arg>>

NextYear == YearFromY \/ YearSuccStep \/ YearMonthStep \/ YearMonthsStep
SpecYear == InitYear /\ [][NextYear]_vars

\* the number of month slots of a year that hold a month
NonZeroSlots(yr) ==
    Cardinality({i \in 1..Len(yr.num_days_of_months) : yr.num_days_of_months[i] # 0})

\* the first day of the month in 0-based slot i, counted from the lengths
SlotStart(yr, i) == yr.first_day + SumSeq(SubSeq(yr.num_days_of_months, 1, i))

\* the number of days of slot i on which a mid-term falls, observed directly
MidTermsInSlot(s, yr, i) ==
    Cardinality({d \in SlotStart(yr, i)..(SlotStart(yr, i + 1) - 1) :
                    LET st == DateSolarTerm(s, d, BEIJING_TZ)
                    IN IsSome(st) /\ IsMidTerm(st[1])})

\* C2: when the builder succeeds on Y and on Y+1, the first day of Y plus the
\* sum of Y's month lengths is the first day of Y+1, and that sum is the
\* number of days Year::num_days reports: the years tile the day line.
C2_YearsTile ==
    (pc = "succ" /\ IsSome(cyear) /\ IsSome(cyear2)) =>
        /\ cyear[1].first_day + SumSeq(cyear[1].num_days_of_months)
              = cyear2[1].first_day
        /\ YearNumDays(cyear[1]) = cyear2[1].first_day - cyear[1].first_day

\* a 13-month year followed by a successfully built year
C2_Witness ==
    /\ pc = "succ" /\ IsSome(cyear) /\ IsSome(cyear2)
    /\ cyear[1].leap_month >= 11 /\ cyear[1].leap_month < 13
    /\ cyear2[1].first_day - cyear[1].first_day > 380

\* C4: every year the builder returns has 13 length slots; num_months is 13
\* exactly when leap_month < 13; the first num_months slots are non-zero; the
\* 13th slot is 0 exactly when leap_month = 13; a build that does not stitch
\* 12 or 13 months aborts instead of returning a year.
C4_YearShape ==
    (pc = "from_y") =>
        /\ IsSome(cyear) \/ IsPanic(cyear)
        /\ IsSome(cyear) =>
              LET yr == cyear[1]
              IN /\ Len(yr.num_days_of_months) = 13
                 /\ (YearNumMonths(yr) = 13) <=> (yr.leap_month < 13)
                 /\ \A i \in 1..YearNumMonths(yr) : yr.num_days_of_months[i] # 0
                 /\ (yr.num_days_of_months[13] = 0) <=> (yr.leap_month = 13)
                 /\ NonZeroSlots(yr) = YearNumMonths(yr)

\* a leap year whose leap month comes from the following solstice period
C4_Witness ==
    /\ pc = "from_y" /\ IsSome(cyear)
    /\ cyear[1].leap_month \in {11, 12}
    /\ cyear[1].num_days_of_months[13] # 0

\* a 12-month year with its padding slot
C4_WitnessPlain ==
    /\ pc = "from_y" /\ IsSome(cyear)
    /\ cyear[1].leap_month = 13
    /\ cyear[1].num_days_of_months[13] = 0

C9_MonthInclusive ==
    /\ (pc = "month") =>
          LET n == NonZeroSlots(cyear[1])
          IN IF 1 <= arg.ord /\ arg.ord <= n
             THEN /\ IsSome(cmonth)
                  /\ cmonth[1].month = arg.ord - 1
                  /\ YearEq(cmonth[1].year, cyear[1])
             ELSE cmonth = None
    /\ (pc = "months") =>
          LET n == NonZeroSlots(cyear[1])
          IN /\ IsSome(cmonth.first) /\ cmonth.first[1].month = 0
             /\ IsSome(cmonth.last) /\ cmonth.last[1].month = n - 1
             /\ Len(cmonth.months) = n
             /\ \A j \in 1..n : cmonth.months[j].month = j - 1

\* the 13th month of a leap year is returned
C9_Witness ==
    /\ pc = "month" /\ arg.ord = 13
    /\ cyear[1].leap_month < 13
    /\ IsSome(cmonth) /\ cmonth[1].month = 12

\* last_month of a leap year is its 13th month
C9_WitnessLast ==
    /\ pc = "months" /\ cyear[1].leap_month < 13
    /\ cmonth.last = Some([year |-> cyear[1], month |-> 12])

----------------------------------------------------------------------------
(* Months: Month::from_ylm against the year Year::from_y builds             *)

MaxMonthArg == 15

InitMonth == InitYear

MonthFromYlmStep ==
    /\ pc = "from_y"
    /\ pc' = "from_ylm"
    /\ cyear2' = ChineseYearNew(sky, arg.year)
    /\ \E leap \in BOOLEAN, month \in 0..MaxMonthArg :
          /\ arg' = [year |-> arg.year, leap |-> leap, month |-> month]
          /\ cmonth' = MonthFromYlmOn(cyear2', leap, month)
    /\ UNCHANGED <<sky, date, gday, cyear, cday, back, conv>>

NextMonth == YearFromY \/ MonthFromYlmStep
SpecMonth == InitMonth /\ [][NextMonth]_vars

\* the month in 0-based slot i of the year from_y built
SlotOf(i) == [year |-> cyear[1], month |-> i]

C7_LeapIsSlotBefore ==
    (pc = "from_ylm" /\ IsSome(cyear) /\ arg.leap) =>
        IF arg.month = cyear[1].leap_month /\ cyear[1].leap_month < 13
        THEN IsSome(cmonth) /\ MonthEq(cmonth[1], SlotOf(arg.month - 1))
        ELSE cmonth = None

\* C7: from_ylm(Y, true, m) is slot m, the leap slot itself, when
\* m = leap_month < 13, and None, without abort, for every other m, so for
\* every m when the year has no leap month.
C7_LeapIsLeapSlot ==
    (pc = "from_ylm" /\ IsSome(cyear) /\ arg.leap) =>
        IF arg.month = cyear[1].leap_month /\ cyear[1].leap_month < 13
        THEN IsSome(cmonth) /\ MonthEq(cmonth[1], SlotOf(arg.month))
        ELSE cmonth = None

\* a leap request that names the leap month
C7_Witness ==
    /\ pc = "from_ylm" /\ IsSome(cyear) /\ arg.leap
    /\ arg.month = cyear[1].leap_month
    /\ IsSome(cmonth) /\ cmonth[1].month = arg.month /\ MonthIsLeap(cmonth[1])

\* C8: for the month in slot i of a year with leap slot L, from_ylm(Y, l, n)
\* returns that month, where (l, n) is (false, i + 1) for i < L, (true, L) for
\* i = L and (false, i) for i > L; l and n - 1 are what Month's Display and
\* Month::is_leap derive from the slot.
C8_FromYlmInvertsNaming ==
    (pc = "from_ylm" /\ IsSome(cyear)) =>
        \A i \in 0..(NonZeroSlots(cyear[1]) - 1) :
            LET L == cyear[1].leap_month
                l == (i = L)
                n == IF i < L THEN i + 1 ELSE i
            IN /\ l = MonthDisplayLeap(SlotOf(i))
               /\ l = MonthIsLeap(SlotOf(i))
               /\ n = MonthDisplayName(SlotOf(i)) + 1
               /\ (arg.leap = l /\ arg.month = n) =>
                     (IsSome(cmonth) /\ MonthEq(cmonth[1], SlotOf(i)))

\* a month after the leap slot found again from its name
C8_Witness ==
    /\ pc = "from_ylm" /\ IsSome(cyear) /\ ~arg.leap
    /\ arg.month > cyear[1].leap_month
    /\ IsSome(cmonth) /\ cmonth[1].month = arg.month
    /\ MonthDisplayName(cmonth[1]) + 1 = arg.month

----------------------------------------------------------------------------
(* Days: Date -> Day -> Date, Day -> Date -> Day and Day::succ              *)

\* the skies of the day runs: a mean Sun with a 12-month year and with a leap
\* month late in the year, and a true Sun with an irregular leap year
DaySkies ==
    {[sun0 |-> 220500, ecc |-> 0, moon0 |-> k * MilliDeg(12)] : k \in {0, 3}}
    \cup {[sun0 |-> 218000, ecc |-> 11, moon0 |-> 5 * MilliDeg(12)]}

\* the Chinese year whose days are enumerated, and the dates converted: from
\* 1 January of that Gregorian year past its Chinese new year
DayYear == FirstYear + 1
NumDates == 100
FirstDate == GregDayToDate([year |-> DayYear, month |-> 0, day |-> 0])
Dates == FirstDate..(FirstDate + NumDates - 1)
MaxDayArg == 31

Init ==
    /\ pc = "start"
    /\ sky \in DaySkies
    /\ arg = NoValue
    /\ Idle

\* ChineseDay::from(date)
DayFromDateStep ==
    /\ pc = "start"
    /\ pc' = "from_date"
    /\ \E d \in Dates :
          /\ date' = d
          /\ cday' = ChineseDayFromDate(sky, d)
    /\ UNCHANGED <<sky, gday, cyear, cyear2, cmonth, back, conv, arg>>

\* Date::from(day) of the day just converted
DayToDateStep ==
    /\ pc = "from_date" /\ IsSome(cday)
    /\ pc' = "to_date"
    /\ back' = ChineseDayToDate(cday[1])
    /\ UNCHANGED <<sky, date, gday, cyear, cyear2, cmonth, cday, conv, arg>>

\* ChineseDay::from_ymd(year, month, day)
DayFromYmdStep ==
    /\ pc = "start"
    /\ pc' = "from_ymd"
    /\ cyear2' = ChineseYearNew(sky, DayYear)
    /\ \E month \in 0..MaxMonthArg, day \in 0..MaxDayArg :
          /\ arg' = [year |-> DayYear, month |-> month, day |-> day]
          /\ cday' = DayFromYmdOn(cyear2', month, day)
    /\ UNCHANGED <<sky, date, gday, cyear, cmonth, back, conv>>

\* ChineseDay::from(Date::from(day)) of a valid day
DayRoundTripStep ==
    /\ pc = "from_ymd" /\ IsSome(cday)
    /\ pc' = "round_trip"
    /\ date' = ChineseDayToDate(cday[1])
    /\ conv' = ChineseDayFromDate(sky, date')
    /\ UNCHANGED <<sky, gday, cyear, cyear2, cmonth, cday, back, arg>>

\* day.succ(), next to the direct conversion of the following date
DaySuccStep ==
    /\ pc = "round_trip"
    /\ pc' = "succ"
    /\ cday' = DaySucc(sky, cday[1])
    /\ back' = IF IsSome(cday') THEN ChineseDayToDate(cday'[1]) ELSE NoValue
    /\ conv' = ChineseDayFromDate(sky, DateSucc(date))
    /\ UNCHANGED <<sky, date, gday, cyear, cyear2, cmonth, arg>>

Next ==
    \/ DayFromDateStep
    \/ DayToDateStep
    \/ DayFromYmdStep
    \/ DayRoundTripStep
    \/ DaySuccStep

Spec == Init /\ [][Next]_vars

\* the Chinese year the claim assigns to a date: that of the date's Gregorian
\* year if the date is not before its first day, else the one before
ClaimedYearOf(s, d) ==
    LET yg == GregDayFromDate(d)[1].year
        cy == ChineseYearNew(s, yg)
    IN IF d >= cy[1].first_day THEN yg ELSE yg - 1

\* C1: ChineseDay::from(d) does not abort, lies in the Chinese year of d's
\* Gregorian year Yg if d is not before that year's first day and in Yg - 1
\* otherwise, and converts back to d; and every valid ChineseDay c converts
\* to a Date that converts back to c.
C1_ChineseDayRoundTrip ==
    /\ (pc = "from_date") =>
          /\ IsSome(cday)
          /\ cday[1].month.year.year = ClaimedYearOf(sky, date)
    /\ (pc = "to_date") => back = date
    /\ (pc = "round_trip") => (IsSome(conv) /\ DayEq(conv[1], cday[1]))

\* a date before the Chinese new year of its Gregorian year, converted to a
\* day of the previous Chinese year and back
C1_Witness ==
    /\ pc = "to_date" /\ back = date
    /\ cday[1].month.year.year = GregDayFromDate(date)[1].year - 1

\* a day of a leap month converted to a Date and back
C1_WitnessLeap ==
    /\ pc = "round_trip" /\ MonthIsLeap(cday[1].month)
    /\ IsSome(conv) /\ DayEq(conv[1], cday[1])

\* C3: for every valid ChineseDay c, c.succ() does not abort, converts to the
\* Date after c's, and equals the direct conversion of that Date.
C3_SuccAdvancesOneDay ==
    (pc = "succ") =>
        /\ IsSome(cday)
        /\ back = date + 1
        /\ IsSome(conv) /\ DayEq(cday[1], conv[1])

\* the successor of the last day of a 13-month year: the first day of the
\* next year
C3_Witness ==
    /\ pc = "succ" /\ IsSome(cday)
    /\ arg.month = 13
    /\ cday[1].month.year.year = DayYear + 1
    /\ cday[1].month.month = 0 /\ cday[1].day = 0
    /\ back = date + 1

----------------------------------------------------------------------------
(* Gregorian days: from_ymd, Date::from(day), GregorianDay::from(date)      *)

\* the last pair lies outside the years from_y accepts
GregYears ==
    {-9999, -4713, -4712, -1, 0, 1, 1582, 1900, 2000, 2024, 9999}
        \cup {-GregYearLimit - 1, GregYearLimit + 1}
\* the ordinals handed to Year::day run over 0 .. MaxYearDayOrd
MaxYearDayOrd == 370

InitGreg ==
    /\ pc = "start"
    /\ sky = NoValue
    /\ arg = NoValue
    /\ Idle

\* Calendar::from_ymd(year, month, day)
GregFromYmdStep ==
    /\ pc = "start"
    /\ pc' = "greg_ymd"
    /\ \E year \in GregYears, month \in 0..13, day \in 0..32 :
          /\ arg' = [year |-> year, month |-> month, day |-> day]
          /\ gday' = GregFromYmd(year, month, day)
    /\ UNCHANGED <<sky, date, cyear, cyear2, cmonth, cday, back, conv>>

\* GregorianDay::from(Date::from(day)), next to the Date of day.succ()
GregRoundTripStep ==
    /\ pc = "greg_ymd" /\ IsSome(gday)
    /\ pc' = "greg_round_trip"
    /\ date' = GregDayToDate(gday[1])
    /\ back' = GregDayFromDate(date')
    /\ conv' = LET n == GregDaySucc(gday[1])
               IN IF IsSome(n) THEN Some(GregDayToDate(n[1])) ELSE n
    /\ UNCHANGED <<sky, gday, cyear, cyear2, cmonth, cday, arg>>

\* Calendar::from_ym(year, month)
GregFromYmStep ==
    /\ pc = "start"
    /\ pc' = "greg_ym"
    /\ \E year \in GregYears \cup {-GregYearLimit, GregYearLimit}, month \in 0..14 :
          /\ arg' = [year |-> year, month |-> month]
          /\ gday' = GregFromYm(year, month)
    /\ UNCHANGED <<sky, date, cyear, cyear2, cmonth, cday, back, conv>>

\* Calendar::from_y(year).unwrap().day(ord), next to the year's num_days
GregYearDayStep ==
    /\ pc = "start"
    /\ pc' = "greg_year_day"
    /\ \E year \in GregYears \cup {-GregYearLimit, GregYearLimit}, ord \in 0..MaxYearDayOrd :
          /\ IsSome(GregFromY(year))
          /\ arg' = [year |-> year, ord |-> ord]
          /\ gday' = GregYearDay(year, ord)
          /\ conv' = GregYearNumDays(year)
    /\ UNCHANGED <<sky, date, cyear, cyear2, cmonth, cday, back>>

\* the years handed to the two Julian-day routines: those of the
\* repository's test
JulianDayYears == {-4713, 0, 1, 1582, 1600, 1900, 1987, 1988, 1999, 2000}

\* proleptic_gregorian_to_julian_day(year, month, day) with the day at
\* midnight or noon, then julian_day_to_proleptic_gregorian of the result
JulianDayStep ==
    /\ pc = "start"
    /\ pc' = "greg_jd"
    /\ \E year \in JulianDayYears, month \in 1..12, day \in 1..28, hour \in {0, 12} :
          /\ arg' = [year |-> year, month |-> month, day |-> day, hour |-> hour]
          /\ conv' = ProlepticGregorianToJulianDayAt(year, month, HoursPerDay * day + hour)
          /\ back' = JulianDayToProlepticGregorian(conv')
    /\ UNCHANGED <<sky, date, gday, cyear, cyear2, cmonth, cday>>

\* Day::jdn and Day::weekday, the trait's defaults through Date::from(day)
GregWeekdayStep ==
    /\ pc = "greg_ymd" /\ IsSome(gday)
    /\ pc' = "greg_weekday"
    /\ date' = GregDayToDate(gday[1])
    /\ conv' = DateWeekday(date')
    /\ UNCHANGED <<sky, gday, cyear, cyear2, cmonth, cday, back, arg>>

\* day.ord_in_year(), then day.the_year().day(that ordinal)
GregOrdInYearStep ==
    /\ pc = "greg_ymd" /\ IsSome(gday)
    /\ pc' = "greg_ord_in_year"
    /\ conv' = GregDayOrdInYear(gday[1])
    /\ back' = GregYearDay(gday[1].year, conv')
    /\ UNCHANGED <<sky, date, gday, cyear, cyear2, cmonth, cday, arg>>

NextGreg ==
    \/ GregFromYmdStep \/ GregRoundTripStep \/ GregFromYmStep \/ GregYearDayStep
    \/ JulianDayStep \/ GregWeekdayStep \/ GregOrdInYearStep
SpecGreg == InitGreg /\ [][NextGreg]_vars

\* C10 as stated: for every valid Gregorian day g of a year in -4713..9999,
\* GregorianDay::from(Date::from(g)) = g, and g and the day after it map to
\* distinct Dates.
C10_GregorianBijection ==
    (pc = "greg_round_trip" /\ arg.year \in -4713..9999) =>
        /\ back = Some(gday[1])
        /\ conv # Some(date)

\* what the conversion does satisfy: the round trip holds for every day on or
\* after -4713-11-24, the day of jdn 0, and every earlier day maps to jdn 0
GregRoundTripFromJdnZero ==
    (pc = "greg_round_trip") =>
        IF ProlepticGregorianToJulianDay(arg.year, arg.month, arg.day) >= -12
        THEN back = Some(gday[1]) /\ conv # Some(date)
        ELSE date = 0 /\ back = Some([year |-> -4713, month |-> 10, day |-> 23])

\* C11 as stated: every valid Gregorian day of a year in -9999..9999 converts
\* to a Date whose jdn is the day's true Julian Day Number, negative before
\* -4713-11-24, and distinct from the Date of the day after it.
C11_SignedJdn ==
    (pc = "greg_round_trip" /\ arg.year \in -9999..9999) =>
        /\ Jdn(date) = Floor(ProlepticGregorianToJulianDay(arg.year, arg.month, arg.day) + 12,
                             HoursPerDay)
        /\ conv # Some(date)

----------------------------------------------------------------------------
(* Runs of the Date kernel: Date::succ, Date::pred, Date + i32, i32 + Date, *)
(* Date - Date and Date::weekday on Dates from both ends and the middle of  *)
(* the u32 range, under either overflow policy of the build.                *)

\* how many Dates are taken next to each end of u32 and next to 2^31
EdgeWidth == 8

KernelJdns == {0, 1, 2, 5, 6, 7, 8, 2299160, 2299161, 2440588, 2451545, 2460351}
KernelDates ==
    {U32Of(n) : n \in KernelJdns}
        \cup {U32(Limb \div 2 - 1, Limb - 1 - i) : i \in 0..EdgeWidth}
        \cup {U32(Limb \div 2, i) : i \in 0..EdgeWidth}
        \cup {U32(Limb - 1, Limb - 1 - i) : i \in 0..EdgeWidth}
KernelOffsets ==
    {I32Min, I32Min + 1, -2460351, -10, -8, -7, -1, 0, 1, 7, 8, 10, 2460351,
     I32Max - 1, I32Max}

InitDate ==
    /\ pc = "start"
    /\ sky = NoValue
    /\ arg = NoValue
    /\ Idle

\* d.succ(), then .pred() of the result
DateSuccStep ==
    /\ pc = "start"
    /\ pc' = "date_succ"
    /\ \E w \in KernelDates, checks \in BOOLEAN :
          /\ date' = w
          /\ arg' = [checks |-> checks, k |-> 1]
          /\ conv' = DateSuccU32(checks, w)
          /\ back' = IF IsSome(conv') THEN DatePredU32(checks, conv'[1]) ELSE Panic
    /\ UNCHANGED <<sky, gday, cyear, cyear2, cmonth, cday>>

\* d.pred(), then .succ() of the result
DatePredStep ==
    /\ pc = "start"
    /\ pc' = "date_pred"
    /\ \E w \in KernelDates, checks \in BOOLEAN :
          /\ date' = w
          /\ arg' = [checks |-> checks, k |-> -1]
          /\ conv' = DatePredU32(checks, w)
          /\ back' = IF IsSome(conv') THEN DateSuccU32(checks, conv'[1]) ELSE Panic
    /\ UNCHANGED <<sky, gday, cyear, cyear2, cmonth, cday>>

\* d + k, then (d + k) + (-k); -k is no i32 for k = i32::MIN
DateAddStep ==
    /\ pc = "start"
    /\ pc' = "date_add"
    /\ \E w \in KernelDates, k \in KernelOffsets :
          /\ date' = w
          /\ arg' = [checks |-> FALSE, k |-> k]
          /\ conv' = Some(DateAddU32(w, k))
          /\ back' = IF k = I32Min THEN None ELSE Some(DateAddU32(conv'[1], -k))
    /\ UNCHANGED <<sky, gday, cyear, cyear2, cmonth, cday>>

\* k + d, next to d + k
IntAddDateStep ==
    /\ pc = "start"
    /\ pc' = "int_add_date"
    /\ \E w \in KernelDates, k \in KernelOffsets :
          /\ date' = w
          /\ arg' = [checks |-> FALSE, k |-> k]
          /\ conv' = Some(IntAddDate(k, w))
          /\ back' = Some(DateAddU32(w, k))
    /\ UNCHANGED <<sky, gday, cyear, cyear2, cmonth, cday>>

\* (d + k) - d
DateSubStep ==
    /\ pc = "start"
    /\ pc' = "date_sub"
    /\ \E w \in KernelDates, k \in KernelOffsets, checks \in BOOLEAN :
          /\ date' = w
          /\ arg' = [checks |-> checks, k |-> k]
          /\ conv' = Some(DateAddU32(w, k))
          /\ back' = DateSubU32(checks, conv'[1], w)
    /\ UNCHANGED <<sky, gday, cyear, cyear2, cmonth, cday>>

\* d.weekday(), (d + 7).weekday() and d.succ().weekday()
DateWeekdayStep ==
    /\ pc = "start"
    /\ pc' = "date_weekday"
    /\ \E w \in KernelDates, checks \in BOOLEAN :
          /\ date' = w
          /\ arg' = [checks |-> checks, k |-> 7]
          /\ conv' = DateWeekdayU32(w)
          /\ back' = [plus7 |-> DateWeekdayU32(DateAddU32(w, 7)),
                      succ |-> IF IsSome(DateSuccU32(checks, w))
                               THEN DateWeekdayU32(DateSuccU32(checks, w)[1])
                               ELSE Panic]
    /\ UNCHANGED <<sky, gday, cyear, cyear2, cmonth, cday>>

NextDate ==
    \/ DateSuccStep \/ DatePredStep \/ DateAddStep \/ IntAddDateStep
    \/ DateSubStep \/ DateWeekdayStep
SpecDate == InitDate /\ [][NextDate]_vars

\* the exact sum jdn + k in limbs, and whether it is a u32
ExactSum(w, k) == Carry(w.hi + (k \div Limb), w.lo + (k % Limb))
SumFits(w, k) == FitsU32(ExactSum(w, k))
\* the exact difference a - b of two u32, brought to the nearest i32
NearestI32(a, b) ==
    LET r == Carry(a.hi - b.hi, a.lo - b.lo)
    IN IF r.hi >= Limb \div 2 THEN I32Max
       ELSE IF r.hi < -(Limb \div 2) THEN I32Min
       ELSE r.hi * Limb + r.lo
\* a and b lie on the two sides of 2^31, where `as i32` changes sign
Straddles(a, b) == (a.hi < Limb \div 2) # (b.hi < Limb \div 2)

\* C12 as stated: all Date arithmetic saturates: succ of the maximum Date is
\* the maximum, pred of the minimum Date is the minimum, d + k is the nearest
\* u32 to jdn + k and d1 - d2 the nearest i32 to the difference, and none of
\* them aborts.
C12_ArithmeticSaturates ==
    /\ (pc = "date_succ") =>
          conv = Some(IF date = U32Max THEN U32Max ELSE ExactSum(date, 1))
    /\ (pc = "date_pred") =>
          conv = Some(IF date = U32Min THEN U32Min ELSE ExactSum(date, -1))
    /\ (pc = "date_add") =>
          conv = Some(IF SumFits(date, arg.k) THEN ExactSum(date, arg.k)
                      ELSE IF arg.k < 0 THEN U32Min ELSE U32Max)
    /\ (pc = "date_sub") => back = Some(NearestI32(conv[1], date))

\* what of C12 the code does: Date + i32 and i32 + Date saturate at both ends
\* of u32 and never abort
DateAddSaturates ==
    (pc \in {"date_add", "int_add_date"}) =>
        conv = Some(IF SumFits(date, arg.k) THEN ExactSum(date, arg.k)
                    ELSE IF arg.k < 0 THEN U32Min ELSE U32Max)

C14_WeekdayEverywhere ==
    (pc = "date_weekday") =>
        /\ IsSome(conv)
        /\ (date = U32Min) => conv = Some(0)
        /\ (date = U32Of(2440588)) => conv = Some(Thursday)
        /\ back.plus7 = conv
        /\ back.succ = Some(WeekdaySucc(conv[1]))

\* C14: weekday is jdn mod 7 with jdn 0 a Monday and jdn 2440588 a Thursday
\* and never aborts; weekday(d + 7) = weekday(d) for every Date d with
\* jdn <= u32::MAX - 7, where d + 7 does not saturate, and
\* weekday(succ(d)) = Weekday::succ(weekday(d)) for every d below u32::MAX.
C14_WeekdayBelowTop ==
    (pc = "date_weekday") =>
        /\ IsSome(conv)
        /\ (date = U32Min) => conv = Some(0)
        /\ (date = U32Of(2440588)) => conv = Some(Thursday)
        /\ SumFits(date, 7) => back.plus7 = conv
        /\ (date # U32Max) => back.succ = Some(WeekdaySucc(conv[1]))

C14_Witness ==
    /\ pc = "date_weekday" /\ date = U32Of(2440588)
    /\ conv = Some(Thursday) /\ back.plus7 = Some(Thursday) /\ back.succ = Some(Friday)

----------------------------------------------------------------------------
(* Runs of the degree-range classifiers: SolarTerm::from_degree_range and   *)
(* LunarPhase::from_degree_range on intervals [begin_deg, end_deg] whose    *)
(* ends lie on a half-degree grid, so that an end can sit exactly on a      *)
(* boundary, from below -360 degrees to above 360.                          *)

\* begin_deg runs over -AngleSpan .. AngleSpan half-degrees
AngleSpan == 770
HalfDeg == MilliDeg(1) \div 2
\* the widths end_deg - begin_deg, in 1/1000 degree: an empty interval, a
\* half, one and about one degree (a day of the Sun), 12.5 degrees (a day of
\* the Moon), one and two boundaries of the Sun, and more than a circle
RangeWidths == {0, 500, 1000, 1020, 12500, 15000, 30500, 90000, 178000, 362000}

InitRange ==
    /\ pc = "start"
    /\ sky = NoValue
    /\ arg = NoValue
    /\ Idle

\* SolarTerm::from_degree_range(begin_deg, end_deg)
SolarTermRangeStep ==
    /\ pc = "start"
    /\ pc' = "solar_term_range"
    /\ \E i \in -AngleSpan..AngleSpan, w \in RangeWidths :
          /\ arg' = [begin_deg |-> HalfDeg * i, end_deg |-> HalfDeg * i + w]
          /\ conv' = SolarTermFromDegreeRange(HalfDeg * i, HalfDeg * i + w)
    /\ UNCHANGED <<sky, date, gday, cyear, cyear2, cmonth, cday, back>>

\* LunarPhase::from_degree_range(begin_deg, end_deg)
LunarPhaseRangeStep ==
    /\ pc = "start"
    /\ pc' = "lunar_phase_range"
    /\ \E i \in -AngleSpan..AngleSpan, w \in RangeWidths :
          /\ arg' = [begin_deg |-> HalfDeg * i, end_deg |-> HalfDeg * i + w]
          /\ conv' = LunarPhaseFromDegreeRange(HalfDeg * i, HalfDeg * i + w)
    /\ UNCHANGED <<sky, date, gday, cyear, cyear2, cmonth, cday, back>>

NextRange == SolarTermRangeStep \/ LunarPhaseRangeStep
SpecRange == InitRange /\ [][NextRange]_vars

\* the multiples j of step (in 1/1000 degree) with lo <= j * step < hi, and
\* those with lo < j * step <= hi
MultiplesFrom(step, lo, hi) == {j \in -30..60 : lo <= j * step /\ j * step < hi}
MultiplesUpTo(step, lo, hi) == {j \in -30..60 : lo < j * step /\ j * step <= hi}
\* term i fires at longitude (270 + 15 * i) mod 360
TermAngle(i) == (MilliDeg(270) + MilliDeg(15) * i) % Circle

\* C15 as stated: from_degree_range(a, b) is the term whose boundary angle
\* lies in (a, b], a excluded and b included, and None when no boundary lies
\* in (a, b].
C15_BoundaryInOpenClosed ==
    (pc = "solar_term_range") =>
        LET in == MultiplesUpTo(MilliDeg(15), arg.begin_deg, arg.end_deg)
        IN IF in = {} THEN conv = None
           ELSE /\ IsSome(conv)
                /\ \E j \in in : TermAngle(conv[1]) = (MilliDeg(15) * j) % Circle

\* C15: from_degree_range(a, b) is the term of the first boundary angle in
\* [a, b), a included and b excluded, and None when no boundary lies in
\* [a, b).
C15_FirstBoundaryInClosedOpen ==
    (pc = "solar_term_range") =>
        LET in == MultiplesFrom(MilliDeg(15), arg.begin_deg, arg.end_deg)
        IN IF in = {} THEN conv = None
           ELSE /\ IsSome(conv)
                /\ TermAngle(conv[1]) = (MilliDeg(15) * Min(in)) % Circle

\* the interval [0, 1] of the repository's test, which starts on the boundary
\* of the spring equinox (term 6)
C15_Witness ==
    /\ pc = "solar_term_range"
    /\ arg = [begin_deg |-> 0, end_deg |-> MilliDeg(1)]
    /\ conv = Some(6)

\* C16: LunarPhase::from_degree_range returns a phase for every interval,
\* negative begin_deg included, and never aborts: the cardinal phase at the
\* first multiple of 90 degrees the interval [a, b) holds when it holds one,
\* otherwise the intermediate phase of the quarter (90 (q - 1), 90 q] that a
\* lies in.
C16_PhaseForEveryRange ==
    (pc = "lunar_phase_range") =>
        LET in == MultiplesFrom(MilliDeg(90), arg.begin_deg, arg.end_deg)
            q == CHOOSE j \in -30..60 :
                     MilliDeg(90) * (j - 1) < arg.begin_deg /\ arg.begin_deg <= MilliDeg(90) * j
        IN /\ conv \in 0..(LunarPhaseCount - 1)
           /\ IF in # {}
              THEN conv % 2 = 0 /\ MilliDeg(45) * conv = (MilliDeg(90) * Min(in)) % Circle
              ELSE conv % 2 = 1 /\ MilliDeg(45) * (conv + 1) % Circle = (MilliDeg(90) * q) % Circle

\* a day across the new moon after unwrapping: from -181 to -168.5 degrees
\* the interval holds -180, the full moon (phase 4)
C16_Witness ==
    /\ pc = "lunar_phase_range"
    /\ arg = [begin_deg |-> -MilliDeg(181), end_deg |-> -MilliDeg(181) + 12500]
    /\ conv = 4

----------------------------------------------------------------------------
(* Stems and branches: src/src/chinese.rs.  A Stem and a Branch are their   *)
(* discriminants, Jia = 0 ... Gui = 9 and Zi = 0 ... Hai = 11; a StemBranch *)
(* is [stem, branch].                                                       *)

StemCount == 10
BranchCount == 12

\* Stem::ord and Branch::ord
StemOrd(stem) == stem + 1
BranchOrd(branch) == branch + 1

\* year - 4 on i16: past i16::MIN it aborts with overflow checks and wraps
\* without
I16Min == -(2 ^ 15)
YearLess4(checks, year) ==
    IF year - 4 >= I16Min THEN Some(year - 4)
    ELSE IF checks THEN Panic ELSE Some(year - 4 + 2 ^ 16)

\* Stem::from_year and Branch::from_year, given year - 4
StemFromYear(y4) == RemEuclid(y4, StemCount)
BranchFromYear(y4) == RemEuclid(y4, BranchCount)

\* StemBranch::new_with_repr
StemBranchNewWithRepr(repr) == [stem |-> repr % 10, branch |-> repr % 12]

\* StemBranch::ord computed from the ordinals of the stem and the branch
StemBranchOrdOfOrdinals(sb) ==
    RemEuclid(StemOrd(sb.stem) * 6 - BranchOrd(sb.branch) * 5, 60) + 1

\* StemBranch::ord
StemBranchOrd(sb) == RemEuclid(sb.stem * 6 - sb.branch * 5, 60) + 1

\* StemBranch::from_ord
StemBranchFromOrd(ord) ==
    IF ~(1 <= ord /\ ord <= 60) THEN None
    ELSE Some(StemBranchNewWithRepr(ord - 1))

\* StemBranch::from_stem_branch
StemBranchFromStemBranch(stem, branch) ==
    IF StemOrd(stem) % 2 # BranchOrd(branch) % 2 THEN None
    ELSE Some([stem |-> stem, branch |-> branch])

\* StemBranch::from_year
StemBranchFromYear(checks, year) ==
    LET y4 == YearLess4(checks, year)
    IN IF IsPanic(y4) THEN Panic
       ELSE Some([stem |-> StemFromYear(y4[1]), branch |-> BranchFromYear(y4[1])])

\* the ordinals handed to from_ord run over 0 .. MaxStemBranchOrd
MaxStemBranchOrd == 130
\* the years handed to from_year: YearSpan years on each side of year 4 (a
\* Jia-Zi year), the years of the repository's tests and both ends of i16
YearSpan == 65
StemYears ==
    (4 - YearSpan)..(4 + YearSpan) \cup {1984, 2014, 2023, 2024}
        \cup {I16Min + i : i \in 0..5} \cup {2 ^ 15 - 1}

InitStem ==
    /\ pc = "start"
    /\ sky = NoValue
    /\ arg = NoValue
    /\ Idle

\* StemBranch::from_ord(ord), then .ord() of the result
StemBranchFromOrdStep ==
    /\ pc = "start"
    /\ pc' = "stem_branch_from_ord"
    /\ \E ord \in 0..MaxStemBranchOrd :
          /\ arg' = [ord |-> ord]
          /\ conv' = StemBranchFromOrd(ord)
          /\ back' = IF IsSome(conv') THEN Some(StemBranchOrd(conv'[1])) ELSE None
    /\ UNCHANGED <<sky, date, gday, cyear, cyear2, cmonth, cday>>

\* StemBranch::from_stem_branch(stem, branch), then .ord() of the result
StemBranchFromStemBranchStep ==
    /\ pc = "start"
    /\ pc' = "stem_branch_from_stem_branch"
    /\ \E stem \in 0..(StemCount - 1), branch \in 0..(BranchCount - 1) :
          /\ arg' = [stem |-> stem, branch |-> branch]
          /\ conv' = StemBranchFromStemBranch(stem, branch)
          /\ back' = IF IsSome(conv') THEN Some(StemBranchOrd(conv'[1])) ELSE None
    /\ UNCHANGED <<sky, date, gday, cyear, cyear2, cmonth, cday>>

\* StemBranch::from_year(year), then .ord() of the result
StemBranchFromYearStep ==
    /\ pc = "start"
    /\ pc' = "stem_branch_from_year"
    /\ \E year \in StemYears, checks \in BOOLEAN :
          /\ arg' = [year |-> year, checks |-> checks]
          /\ conv' = StemBranchFromYear(checks, year)
          /\ back' = IF IsSome(conv') THEN Some(StemBranchOrd(conv'[1])) ELSE None
    /\ UNCHANGED <<sky, date, gday, cyear, cyear2, cmonth, cday>>

NextStem ==
    StemBranchFromOrdStep \/ StemBranchFromStemBranchStep \/ StemBranchFromYearStep
SpecStem == InitStem /\ [][NextStem]_vars

SameParity(sb) == StemOrd(sb.stem) % 2 = BranchOrd(sb.branch) % 2

\* C17: from_ord(n) is Some exactly for n in 1..=60 and from_ord(n).ord() = n,
\* with (Jia, Zi) = 1; every pair from from_ord or from_year has a stem and a
\* branch of the same parity; from_stem_branch accepts exactly the 60 pairs of
\* equal parity, each of which is the from_ord of its ord, and returns None
\* for the other 60.
C17_StemBranchBijection ==
    /\ (pc = "stem_branch_from_ord") =>
          /\ IsSome(conv) <=> arg.ord \in 1..60
          /\ IsSome(conv) => back = Some(arg.ord) /\ SameParity(conv[1])
          /\ (arg.ord = 1) => conv = Some([stem |-> 0, branch |-> 0])
    /\ (pc = "stem_branch_from_year" /\ IsSome(conv)) =>
          SameParity(conv[1]) /\ StemBranchFromOrd(back[1]) = conv
    /\ (pc = "stem_branch_from_stem_branch") =>
          /\ IsSome(conv) <=> arg.stem % 2 = arg.branch % 2
          /\ IsSome(conv) => back[1] \in 1..60 /\ StemBranchFromOrd(back[1]) = conv
          /\ IsNone(conv) \/ IsSome(conv)
          /\ Cardinality({p \in (0..(StemCount - 1)) \X (0..(BranchCount - 1)) :
                             IsSome(StemBranchFromStemBranch(p[1], p[2]))}) = 60

\* the repository's test: ordinal 41 is (Jia, Chen)
C17_Witness ==
    /\ pc = "stem_branch_from_ord" /\ arg.ord = 41
    /\ conv = Some([stem |-> 0, branch |-> 4]) /\ back = Some(41)

----------------------------------------------------------------------------
(* Out-of-range Gregorian components, checked under SpecGreg *)

\* the days of month M (1..12) of year Y by the leap rule
\* Y % 400 = 0 or (Y % 4 = 0 and Y % 100 # 0)
DaysInMonth(Y, M) ==
    IF M \in {1, 3, 5, 7, 8, 10, 12} THEN 31
    ELSE IF M \in {4, 6, 9, 11} THEN 30
    ELSE IF Y % 400 = 0 \/ (Y % 4 = 0 /\ Y % 100 # 0) THEN 29 ELSE 28
ValidMonthDay(Y, M, D) == 1 <= M /\ M <= 12 /\ 1 <= D /\ D <= DaysInMonth(Y, M)

\* C18 as stated: from_ymd(Y, M, D) is Some exactly when 1 <= M <= 12 and
\* 1 <= D <= days-in-month(Y, M), whatever the year.
C18_SomeIffMonthDayValid ==
    (pc = "greg_ymd") =>
        (IsSome(gday) <=> ValidMonthDay(arg.year, arg.month, arg.day))

\* C18: no out-of-range component aborts: from_ymd(Y, M, D) is Some exactly
\* when -5000000 <= Y <= 5000000, 1 <= M <= 12 and 1 <= D <= days-in-month(Y, M)
\* and None otherwise; from_ym(Y, 0) and from_ym(Y, 13) are None; Year::day(ord)
\* is None for ord = 0 and ord above the 365 or 366 days of the year and Some
\* in between.
C18_SomeIffAllInRange ==
    /\ (pc = "greg_ymd") =>
          IF /\ -GregYearLimit <= arg.year /\ arg.year <= GregYearLimit
             /\ ValidMonthDay(arg.year, arg.month, arg.day)
          THEN gday = Some([year |-> arg.year, month |-> arg.month - 1, day |-> arg.day - 1])
          ELSE gday = None
    /\ (pc = "greg_ym" /\ arg.month \in {0, 13}) => gday = None
    /\ (pc = "greg_year_day") =>
          /\ conv = 337 + DaysInMonth(arg.year, 2)
          /\ IF 1 <= arg.ord /\ arg.ord <= conv THEN IsSome(gday) ELSE gday = None

\* the leap day of 2024 is a day, and that of 1900 is not
C18_Witness ==
    /\ pc = "greg_ymd" /\ arg = [year |-> 2024, month |-> 2, day |-> 29]
    /\ gday = Some([year |-> 2024, month |-> 1, day |-> 28])

\* (year, month, day, hour) of a step of the Julian-day routines
Anchor(y, m, d, h) == [year |-> y, month |-> m, day |-> d, hour |-> h]
\* the Julian Date jdn + half / 2 in hours, and a Gregorian instant as
\* julian_day_to_proleptic_gregorian returns it
JulianDate(jdn, halves) == HoursPerDay * jdn + 12 * halves
Instant(y, m, d, h) == [y |-> y, m |-> m, dom |-> HoursPerDay * d + h]

\* C19: the anchor pairs hold exactly in both directions: 2000-01-01.5 and
\* JD 2451545.0, -4713-11-24.5 and JD 0.0, 1-1-1 and JD 1721425.5, 1582-10-15
\* and JD 2299160.5; and through Date 1582-10-15 is a Friday, 2024-02-11 a
\* Sunday, -4713-11-24 has jdn 0 and 2000-01-01 has jdn 2451545.
C19_Anchors ==
    /\ (pc = "greg_jd") =>
          /\ (arg = Anchor(2000, 1, 1, 12)) =>
                conv = JulianDate(2451545, 0) /\ back = Instant(2000, 1, 1, 12)
          /\ (arg = Anchor(-4713, 11, 24, 12)) =>
                conv = JulianDate(0, 0) /\ back = Instant(-4713, 11, 24, 12)
          /\ (arg = Anchor(1, 1, 1, 0)) =>
                conv = JulianDate(1721425, 1) /\ back = Instant(1, 1, 1, 0)
          /\ (arg = Anchor(1582, 10, 15, 0)) =>
                conv = JulianDate(2299160, 1) /\ back = Instant(1582, 10, 15, 0)
    /\ (pc = "greg_weekday") =>
          /\ (arg = [year |-> 1582, month |-> 10, day |-> 15]) => conv = Some(Friday)
          /\ (arg = [year |-> 2024, month |-> 2, day |-> 11]) => conv = Some(Sunday)
          /\ (arg = [year |-> -4713, month |-> 11, day |-> 24]) => Jdn(date) = 0
          /\ (arg = [year |-> 2000, month |-> 1, day |-> 1]) => Jdn(date) = 2451545

C19_Witness ==
    /\ pc = "greg_jd" /\ arg = Anchor(-4713, 11, 24, 12)
    /\ conv = 0 /\ back = Instant(-4713, 11, 24, 12)

\* the anchors through Date are reached as well
C19_WitnessFriday ==
    /\ pc = "greg_weekday" /\ arg = [year |-> 1582, month |-> 10, day |-> 15]
    /\ Jdn(date) = 2299161 /\ conv = Some(Friday)

----------------------------------------------------------------------------
(* Runs of the builder on what a sweep can hand it: the months of one       *)
(* solstice period with a mid-term flag each, whatever ephemeris produced   *)
(* them, the other period of the year being an ordinary one of 12 months.   *)

\* a period has 12 .. MaxPeriodMonths month entries
MaxPeriodMonths == 13

\* the sweep's data for n months of 30 and 29 days in turn with the flags f
SweptMonths(n, f) == [i \in 1..n |-> <<29 + (i % 2), f[i]>>]
\* an ordinary period: 12 months, a mid-term in each
PlainPeriod(first) == PeriodOf(first, SweptMonths(12, [i \in 1..12 |-> TRUE]))

InitPeriod ==
    /\ pc = "start"
    /\ sky = NoValue
    /\ arg = NoValue
    /\ Idle

\* ChineseYear::from_y(year) from its two periods, one of them with the
\* swept months data: calc_chinese_year_period_data after its sweep, then
\* calc_chinese_year_data and Year::new
PeriodStep ==
    /\ pc = "start"
    /\ pc' = "period"
    /\ \E n \in 12..MaxPeriodMonths, which \in 1..2 :
          \E f \in [1..n -> BOOLEAN] :
              /\ arg' = [year |-> FirstYear, which |-> which, data |-> SweptMonths(n, f)]
              /\ conv' = PeriodOf(FirstDate, SweptMonths(n, f))
              /\ cyear' = IF which = 1
                          THEN YearOf(FirstYear, StitchYear(conv', PlainPeriod(FirstDate + 354)))
                          ELSE YearOf(FirstYear, StitchYear(PlainPeriod(FirstDate - 354), conv'))
    /\ UNCHANGED <<sky, date, gday, cyear2, cmonth, cday, back>>

\* the flags of n months of which month i alone (none when i = 0) has no
\* mid-term
AllBut(n, i) == [j \in 1..n |-> j # i]
\* a period of 12 months, or of 13 with at most one month without a mid-term
PeriodShapes == {<<12, 0>>} \cup {<<MaxPeriodMonths, i>> : i \in 0..MaxPeriodMonths}

\* ChineseYear::from_y(year) from two consecutive periods: the second one
\* starts on the new moon that ends the last month of the first
StitchStep ==
    /\ pc = "start"
    /\ pc' = "stitch"
    /\ \E s1 \in PeriodShapes, s2 \in PeriodShapes :
          /\ arg' = [year |-> FirstYear,
                     data1 |-> SweptMonths(s1[1], AllBut(s1[1], s1[2])),
                     data2 |-> SweptMonths(s2[1], AllBut(s2[1], s2[2]))]
          /\ conv' = PeriodOf(FirstDate, arg'.data1)
          /\ back' = PeriodOf(FirstDate + SumSeq([i \in 1..s1[1] |-> arg'.data1[i][1]]),
                              arg'.data2)
          /\ cyear' = YearOf(FirstYear, StitchYear(conv', back'))
    /\ UNCHANGED <<sky, date, gday, cyear2, cmonth, cday>>

NextPeriod == PeriodStep \/ StitchStep
SpecPeriod == InitPeriod /\ [][NextPeriod]_vars

EveryMonthHasMidTerm(data) == \A i \in 1..Len(data) : data[i][2]

\* C20: when a solstice period has 13 month entries and every one of them
\* holds a mid-term, the leap search finds no candidate, the builder aborts
\* and no ChineseYear is returned, whichever of the year's two periods it is.
C20_NoCandidateAborts ==
    (pc = "period" /\ Len(arg.data) = 13 /\ EveryMonthHasMidTerm(arg.data)) =>
        conv = Panic /\ cyear = Panic

C20_Witness ==
    /\ pc = "period" /\ arg.which = 2
    /\ Len(arg.data) = 13 /\ EveryMonthHasMidTerm(arg.data)
    /\ conv = Panic /\ cyear = Panic

\* the builder does return a year when the 13 months hold a candidate
C20_WitnessCandidate ==
    /\ pc = "period" /\ arg.which = 1
    /\ Len(arg.data) = 13 /\ ~arg.data[5][2]
    /\ IsSome(conv) /\ IsSome(cyear) /\ cyear[1].leap_month = 2

----------------------------------------------------------------------------
(* Two mid-terms in one lunar month, checked under SpecYear *)

\* C21 as stated: when two mid-terms land in the same lunar month the builder
\* aborts instead of returning a year table, so no month of a returned year
\* holds two mid-terms.
C21_TwoMidTermsAbort ==
    (pc = "from_y" /\ IsSome(cyear)) =>
        \A i \in 0..(YearNumMonths(cyear[1]) - 1) :
            MidTermsInSlot(sky, cyear[1], i) <= 1

----------------------------------------------------------------------------
(* The stitching of two periods into a civil year, checked under SpecPeriod *)

\* the months of a period a civil year leaves out (before it) or takes (from
\* the following period): 3 when the period's leap index is 0, 1 or 2
OffsetOf(leap) == IF IsSome(leap) /\ leap[1] \in {0, 1, 2} THEN 3 ELSE 2
Take(q, n) == SubSeq(q, 1, n)
Drop(q, n) == SubSeq(q, n + 1, Len(q))
Pad13(q) == IF Len(q) = 12 THEN Append(q, 0) ELSE q
\* the first day of the month at 0-based index i of a period
PeriodMonthStart(p, i) == p.first + SumSeq(Take(p.data, i))
\* the first month of the swept data without a mid-term, as a 0-based index
Flagged(data, i) ==
    /\ ~data[i + 1][2]
    /\ \A j \in 1..i : data[j][2]

\* C24: whenever the builder returns a year from the periods p1 and p2, with
\* off = 3 for a period whose leap index is 0, 1 or 2 and 2 otherwise, the
\* lengths are p1's from off1 on followed by the first off2 of p2 (padded
\* with one 0 to 13 entries), the first day is p1's first new moon plus the
\* lengths of p1's first off1 months, leap_month is p1's leap index - 2 when
\* that index is at least 3, else p2's leap index + 10 when that index is at
\* most 2, else 13, and the month at index leap_month of the year is the
\* very month its period flagged: it starts on the same day, has the same
\* length and is the first month of that period without a mid-term.
C24_Stitching ==
    (pc = "stitch" /\ IsSome(cyear)) =>
        LET p1 == conv[1]
            p2 == back[1]
            yr == cyear[1]
            off1 == OffsetOf(p1.leap)
            off2 == OffsetOf(p2.leap)
            from1 == IsSome(p1.leap) /\ p1.leap[1] >= 3
            from2 == ~from1 /\ IsSome(p2.leap) /\ p2.leap[1] <= 2
        IN /\ yr.num_days_of_months = Pad13(Drop(p1.data, off1) \o Take(p2.data, off2))
           /\ yr.first_day = p1.first + SumSeq(Take(p1.data, off1))
           /\ yr.leap_month = IF from1 THEN p1.leap[1] - 2
                              ELSE IF from2 THEN p2.leap[1] + 10 ELSE 13
           /\ from1 =>
                 /\ SlotStart(yr, yr.leap_month) = PeriodMonthStart(p1, p1.leap[1])
                 /\ yr.num_days_of_months[yr.leap_month + 1] = p1.data[p1.leap[1] + 1]
                 /\ Flagged(arg.data1, p1.leap[1])
           /\ from2 =>
                 /\ SlotStart(yr, yr.leap_month) = PeriodMonthStart(p2, p2.leap[1])
                 /\ yr.num_days_of_months[yr.leap_month + 1] = p2.data[p2.leap[1] + 1]
                 /\ Flagged(arg.data2, p2.leap[1])

\* a year whose two periods both have a leap month among their first three:
\* the year takes the second period's
C24_Witness ==
    /\ pc = "stitch" /\ IsSome(cyear)
    /\ conv[1].leap = Some(1) /\ back[1].leap = Some(2)
    /\ cyear[1].leap_month = 12
    /\ cyear[1].first_day = FirstDate + 89

\* a year that takes the leap month of its first period
C24_WitnessFirst ==
    /\ pc = "stitch" /\ IsSome(cyear)
    /\ conv[1].leap = Some(5) /\ back[1].leap = None
    /\ cyear[1].leap_month = 3

----------------------------------------------------------------------------
(* Successor and predecessor of the closed enums: Weekday, SolarTerm,       *)
(* LunarPhase and MonthName, each variant its discriminant.                 *)

EnumKinds == {"Weekday", "SolarTerm", "LunarPhase", "MonthName"}
EnumCount(kind) ==
    CASE kind = "Weekday" -> WeekdayCount
      [] kind = "SolarTerm" -> SolarTermCount
      [] kind = "LunarPhase" -> LunarPhaseCount
      [] kind = "MonthName" -> MonthNameCount

\* succ or pred of the variant v of an enum; the three cyclic enums return a
\* variant, MonthName an Option
EnumApply(kind, op, v) ==
    CASE kind = "Weekday" -> Some(IF op = "succ" THEN WeekdaySucc(v) ELSE WeekdayPred(v))
      [] kind = "SolarTerm" -> Some(IF op = "succ" THEN SolarTermSucc(v) ELSE SolarTermPred(v))
      [] kind = "LunarPhase" -> Some(IF op = "succ" THEN LunarPhaseSucc(v) ELSE LunarPhasePred(v))
      [] kind = "MonthName" -> IF op = "succ" THEN MonthNameSucc(v) ELSE MonthNamePred(v)

Opposite(op) == IF op = "succ" THEN "pred" ELSE "succ"

InitEnum ==
    /\ pc = "start"
    /\ sky = NoValue
    /\ arg = NoValue
    /\ Idle

\* v.succ() or v.pred() of a variant v, and the opposite operation on the
\* result when there is one
EnumStep ==
    /\ pc = "start"
    /\ pc' = "enum"
    /\ \E kind \in EnumKinds, op \in {"succ", "pred"} :
          \E v \in 0..(EnumCount(kind) - 1) :
              /\ arg' = [kind |-> kind, op |-> op, v |-> v]
              /\ conv' = EnumApply(kind, op, v)
              /\ back' = IF IsSome(conv')
                         THEN EnumApply(kind, Opposite(op), conv'[1])
                         ELSE None
    /\ UNCHANGED <<sky, date, gday, cyear, cyear2, cmonth, cday>>

NextEnum == EnumStep
SpecEnum == InitEnum /\ [][NextEnum]_vars

\* the next and the previous variant around the cycle of count variants
CyclicNext(count, v) == IF v = count - 1 THEN 0 ELSE v + 1
CyclicPrev(count, v) == IF v = 0 THEN count - 1 ELSE v - 1
Cyclic(count, op, v) == IF op = "succ" THEN CyclicNext(count, v) ELSE CyclicPrev(count, v)

\* C23 as stated: succ and pred of every closed enum, MonthName included, are
\* modular: the last variant's successor is the first, the first's
\* predecessor the last, and the two are mutual inverses.
C23_AllModular ==
    (pc = "enum") =>
        /\ conv = Some(Cyclic(EnumCount(arg.kind), arg.op, arg.v))
        /\ back = Some(arg.v)

\* C23: succ and pred of Weekday, SolarTerm and LunarPhase are modular (the
\* successor of the last variant is the first, the predecessor of the first
\* is the last) and mutual inverses on every variant.  MonthName's are not
\* modular: succ of December and pred of January are None; on every other
\* variant they are Some of the neighbour and undo each other.
C23_ModularButMonthName ==
    (pc = "enum") =>
        LET count == EnumCount(arg.kind)
            end == IF arg.op = "succ" THEN count - 1 ELSE 0
        IN IF arg.kind = "MonthName" /\ arg.v = end
           THEN conv = None /\ back = None
           ELSE /\ conv = Some(Cyclic(count, arg.op, arg.v))
                /\ back = Some(arg.v)

\* the predecessor of the first solar term is the last one
C23_Witness ==
    /\ pc = "enum" /\ arg.kind = "SolarTerm" /\ arg.op = "pred"
    /\ arg.v = WinterSolstice
    /\ conv = Some(SolarTermCount - 1) /\ back = Some(WinterSolstice)

\* December has no successor
C23_WitnessDecember ==
    /\ pc = "enum" /\ arg.kind = "MonthName" /\ arg.op = "succ"
    /\ arg.v = MonthNameCount - 1
    /\ conv = None

----------------------------------------------------------------------------
(* The winter-solstice search under skies whose solstice falls on the days  *)
(* around 21 December: the Sun's longitude at the epoch is moved in steps   *)
(* of half a degree, about half a day of solar motion.                      *)

SolsticeShift == 5
SolsticeSkies ==
    {[sun0 |-> u.sun0 + k * (MilliDeg(1) \div 2), ecc |-> u.ecc, moon0 |-> 0] :
        u \in Suns, k \in (-SolsticeShift)..SolsticeShift}

InitSolstice ==
    /\ pc = "start"
    /\ sky \in SolsticeSkies
    /\ arg \in [year : Years]
    /\ Idle

\* get_winter_solstice(year, BEIJING_TZ); date is the day the search starts
\* on, 21 December of the year
WinterSolsticeStep ==
    /\ pc = "start"
    /\ pc' = "solstice"
    /\ date' = GregDayToDate(GregFromYmd(arg.year, 12, 21)[1])
    /\ conv' = GetWinterSolstice(sky, arg.year, BEIJING_TZ)
    /\ UNCHANGED <<sky, gday, cyear, cyear2, cmonth, cday, back, arg>>

NextSolstice == WinterSolsticeStep
SpecSolstice == InitSolstice /\ [][NextSolstice]_vars

\* the Sun passes 270 degrees during the civil day d of the timezone
SunPasses270(s, d, tz) ==
    /\ SunEclLong(s, MidnightJd(d, tz)) <= MilliDeg(270)
    /\ MilliDeg(270) < SunEclLong(s, MidnightJd(d + 1, tz))

\* the solstice day lies k days after (before, for k < 0) 21 December
SolsticeAt(k) == SunPasses270(sky, date + k, BEIJING_TZ)

\* C25 as stated: whenever the solstice day lies within two days of 21
\* December, on either side, the upward search from 21 December returns it
\* after at most 3 steps.
C25_WithinThreeSteps ==
    (pc = "solstice") =>
        \A k \in -2..2 :
            SolsticeAt(k) => conv = Some(date + k)

\* C25: the search starts on 21 December and steps upward: when the solstice
\* day is 21, 22 or 23 December it returns that day, the first day from 21
\* December on with the term WinterSolstice, after at most 2 steps; when the
\* solstice day is 19 or 20 December the search has started past it and
\* finds no solstice within SearchLimit days.
C25_FoundFromDec21On ==
    (pc = "solstice") =>
        /\ \A k \in 0..2 :
              SolsticeAt(k) =>
                 /\ conv = Some(date + k)
                 /\ \A j \in 0..(k - 1) :
                       DateSolarTerm(sky, date + j, BEIJING_TZ) # Some(WinterSolstice)
        /\ \A k \in -2..-1 : SolsticeAt(k) => conv = Panic

\* the solstice of 2023 falls on 23 December and is found on the third day
C25_Witness ==
    /\ pc = "solstice" /\ arg.year = 2023 /\ date = 2460300
    /\ SolsticeAt(2)
    /\ conv = Some(2460302)

\* a solstice on 20 December, which the search never meets
C25_WitnessEarly ==
    /\ pc = "solstice" /\ date = 2460300
    /\ SolsticeAt(-1)
    /\ conv = Panic

----------------------------------------------------------------------------
(* Day::ord_in_year, checked under SpecGreg *)

\* C28 as stated: ord_in_year is the 1-based position of the day in its
\* year: the_year().day(ord_in_year) is the day itself, the first day of the
\* year has ordinal 1 and the last day has the year's num_days.
C28_OrdInYearIsPosition ==
    (pc = "greg_ord_in_year") =>
        /\ back = gday
        /\ (gday[1].month = 0 /\ gday[1].day = 0) => conv = 1
        /\ (gday[1].month = 11 /\ gday[1].day = 30) => conv = GregYearNumDays(gday[1].year)

\* what the code computes: one more than the position, so that the day found
\* at that ordinal is the following day of the year, and none on 31 December
OrdInYearIsPositionPlusOne ==
    (pc = "greg_ord_in_year") =>
        /\ GregYearDay(gday[1].year, conv - 1) = gday
        /\ back = IF gday[1].month = 11 /\ gday[1].day = 30
                  THEN None
                  ELSE GregDaySucc(gday[1])

----------------------------------------------------------------------------
(* The sweep loop day by day, on the events an ephemeris can hand it: new   *)
(* moons 29 or 30 days apart, mid-terms 29 to 31 days apart with a minor    *)
(* term 15 days after each, starting on a new-moon day.                     *)

\* the number of days the sweep runs over
MaxSweepDays == 62
NewMoonGaps == {29, 30}
MidTermGaps == {29, 30, 31}
MinorTermLag == 15
\* a phase other than NewMoon, a mid-term and a minor term
WaxingCrescent == 1
MinorCold == 1

InitSweep ==
    /\ pc = "start"
    /\ sky = NoValue
    /\ date = FirstDate
    /\ conv = [data |-> << >>, last_nm |-> None, has_mt |-> FALSE]
    /\ back = << >>
    /\ cmonth = {}
    /\ arg \in [mt : (FirstDate - 31)..(FirstDate - 1)]
    /\ gday = NoValue /\ cyear = NoValue /\ cyear2 = NoValue /\ cday = NoValue

\* One iteration of while d != next_ws_p1 { ... d = d.succ() } on the day
\* date with the lunar phase lp and the solar term st; back lists the
\* new-moon days so far, cmonth holds the mid-term days, arg.mt is the last
\* mid-term day.
SweepStep ==
    /\ pc \in {"start", "sweep"}
    /\ date < FirstDate + MaxSweepDays
    /\ pc' = "sweep"
    /\ \E lp \in {NewMoon, WaxingCrescent},
          st \in {None, Some(WinterSolstice), Some(MinorCold)} :
          /\ IF back = << >> THEN lp = NewMoon
             ELSE IF lp = NewMoon
                  THEN (date - back[Len(back)]) \in NewMoonGaps
                  ELSE \E g \in NewMoonGaps : date - back[Len(back)] < g
          /\ IF st = Some(WinterSolstice)
             THEN (date - arg.mt) \in MidTermGaps
             ELSE \E g \in MidTermGaps : date - arg.mt < g
          /\ (st = Some(MinorCold)) <=> (date - arg.mt = MinorTermLag)
          /\ conv' = SweepEvent(conv, date, lp, st)
          /\ back' = IF lp = NewMoon THEN Append(back, date) ELSE back
          /\ cmonth' = IF st = Some(WinterSolstice) THEN cmonth \cup {date} ELSE cmonth
          /\ arg' = IF st = Some(WinterSolstice) THEN [mt |-> date] ELSE arg
    /\ date' = DateSucc(date)
    /\ UNCHANGED <<sky, gday, cyear, cyear2, cday>>

NextSweep == SweepStep
SpecSweep == InitSweep /\ [][NextSweep]_vars

\* a mid-term falls on a day from a up to, but not on, b
MidTermIn(a, b) == \E t \in cmonth : a <= t /\ t < b

\* C26: the sweep emits one entry per pair of consecutive new moons and
\* nothing for the days after the last new moon: the entry's length is the
\* number of days from the one new moon to the next, and its flag says
\* whether a mid-term fell on a day from the month's new-moon day (that day
\* included: a mid-term on a new-moon day belongs to the month that day
\* begins) up to the day before the next new moon.  The running flag is the
\* same for the month in progress.
C26_SweepCreditsMonths ==
    (pc = "sweep") =>
        /\ Len(conv.data) = Len(back) - 1
        /\ \A i \in 1..Len(conv.data) :
              conv.data[i] = <<back[i + 1] - back[i], MidTermIn(back[i], back[i + 1])>>
        /\ conv.last_nm = Some(back[Len(back)])
        /\ conv.has_mt = MidTermIn(back[Len(back)], date)

\* a mid-term on the day of the second new moon: the first month, which has
\* no other, is emitted without a mid-term and the second month with one
C26_Witness ==
    /\ pc = "sweep" /\ Len(back) = 3
    /\ cmonth = {back[2]}
    /\ conv.data = <<(<<29, FALSE>>), (<<30, TRUE>>)>>
    /\ date > back[3] /\ ~conv.has_mt

----------------------------------------------------------------------------
(* Daily sampling: Date::solar_term and Date::lunar_phase on consecutive    *)
(* days, each day classified from the samples at its two midnights.  An     *)
(* angle is followed without reduction (from, curr, next: the angle at the  *)
(* first midnight of the run and at the two midnights of the day just       *)
(* classified); the code sees each sample reduced to [0, 360).  Samples lie *)
(* on a half-degree grid, so that they can sit exactly on a boundary.       *)

\* the runs start at 0, 0.5, ... SampleStarts half-degrees
SampleStarts == 30
\* a run goes on until the angle has advanced by SampleTurn degrees
SampleTurn == 380
\* what the angle advances by in a day, in 1/1000 degree: the Sun's by about
\* a degree, the Moon's elongation by about 12, and by just less than the
\* spacing of the boundaries
DayAdvances(kind) ==
    IF kind = "sun" THEN {500, 1000, 14500} ELSE {11500, 12500, 14500, 89500}
Spacing(kind) == IF kind = "sun" THEN MilliDeg(15) ELSE MilliDeg(90)

InitSample ==
    /\ pc = "start"
    /\ sky = NoValue
    /\ arg \in {[kind |-> k, from |-> HalfDeg * i, curr |-> HalfDeg * i, next |-> HalfDeg * i] :
                   k \in {"sun", "moon"}, i \in 0..SampleStarts}
    /\ back = 0
    /\ date = 0
    /\ gday = NoValue /\ cyear = NoValue /\ cyear2 = NoValue
    /\ cmonth = NoValue /\ cday = NoValue /\ conv = NoValue

\* d.solar_term(tz) or d.lunar_phase(tz) of the next day d of the run: conv
\* is the result, back counts the days so far that reported an event (a
\* solar term, or one of the four cardinal phases)
SampleStep ==
    /\ pc \in {"start", "sample"}
    /\ arg.next < arg.from + MilliDeg(SampleTurn)
    /\ pc' = "sample"
    /\ \E adv \in DayAdvances(arg.kind) :
          /\ arg' = [kind |-> arg.kind, from |-> arg.from,
                     curr |-> arg.next, next |-> arg.next + adv]
          /\ conv' = IF arg.kind = "sun"
                     THEN SolarTermBetween(arg'.curr % Circle, arg'.next % Circle)
                     ELSE Some(LunarPhaseBetween(arg'.curr % Circle, arg'.next % Circle))
    /\ back' = back + (IF arg.kind = "sun"
                       THEN (IF IsSome(conv') THEN 1 ELSE 0)
                       ELSE (IF conv'[1] % 2 = 0 THEN 1 ELSE 0))
    /\ UNCHANGED <<sky, date, gday, cyear, cyear2, cmonth, cday>>

NextSample == SampleStep
SpecSample == InitSample /\ [][NextSample]_vars

\* the boundaries the angle reaches or passes from the midnight at angle lo
\* up to, but not at, the midnight at angle hi
Crossed(kind, lo, hi) == MultiplesFrom(Spacing(kind), lo, hi)
\* the angle in [0, 360) of the event a day reported
EventAngle(kind, r) == IF kind = "sun" THEN TermAngle(r) ELSE MilliDeg(45) * r
Reported(kind, r) == IF kind = "sun" THEN IsSome(r) ELSE r[1] % 2 = 0

\* C27: with samples advancing every day by a positive amount smaller than
\* the spacing of the boundaries, a day reports an event exactly when the
\* angle reaches or passes a boundary between the day's first midnight
\* (included) and its second (excluded), and the event is that boundary's;
\* so the number of days that reported an event is at every moment the
\* number of boundaries passed since the start of the run: no boundary is
\* reported on two days and none is skipped, a sample exactly on a boundary
\* and the step from 360 back to 0 included.
C27_OneDayPerEvent ==
    (pc = "sample") =>
        LET in == Crossed(arg.kind, arg.curr, arg.next)
        IN /\ Cardinality(in) <= 1
           /\ Reported(arg.kind, conv) <=> (in # {})
           /\ (in # {}) =>
                 EventAngle(arg.kind, conv[1]) = (Spacing(arg.kind) * Min(in)) % Circle
           /\ back = Cardinality(Crossed(arg.kind, arg.from, arg.next))

\* the day from 359.5 to 0.5 degrees reports the spring equinox, the term
\* at 0 degrees, as the 24th event of a run that started at 0.5 degrees
C27_Witness ==
    /\ pc = "sample" /\ arg.kind = "sun"
    /\ arg.from = 500 /\ arg.curr = Circle - 500 /\ arg.next = Circle + 500
    /\ conv = Some(6) /\ back = 24

\* a sample exactly on 360 = 0 degrees: the new moon belongs to the day that
\* starts there, the fourth event of a run that started after 0 degrees
C27_WitnessOnBoundary ==
    /\ pc = "sample" /\ arg.kind = "moon"
    /\ arg.from > 0 /\ arg.curr = Circle
    /\ conv = Some(NewMoon) /\ back = 4

----------------------------------------------------------------------------
(* Instants and civil days: an instant of the civil day d of a timezone,    *)
(* given as a Julian Date and as Unix time, handed to Date::from_jd_with_tz *)
(* and Date::from_unix_time_with_tz.  Timezones are whole hours, instants   *)
(* whole hours after the day's midnight_jd.                                 *)

TimeZones == -12..14
TzDates == {2440589, 2451545, 2460000}
\* the Julian Date of the Unix epoch, 2440587.5, in hours
UnixEpochJd == HoursPerDay * 2440587 + 12

InitTz ==
    /\ pc = "start"
    /\ sky = NoValue
    /\ arg = NoValue
    /\ Idle

\* Date::from_jd_with_tz(x, tz) and Date::from_unix_time_with_tz(u, tz), the
\* latter Self::from_jd(unix_time as f64 / 86400.0 + 2440587.5 - tz / 24.0),
\* for the instant x = d.midnight_jd(tz) + hour/24 and its Unix time u
\* (arg.unix, in hours)
DateFromInstantStep ==
    /\ pc = "start"
    /\ pc' = "tz"
    /\ \E d \in TzDates, tz \in TimeZones, hour \in 0..(HoursPerDay - 1) :
          /\ date' = d
          /\ arg' = [tz |-> tz, hour |-> hour,
                     jd |-> MidnightJd(d, tz) + hour,
                     unix |-> MidnightJd(d, tz) + hour - UnixEpochJd]
          /\ conv' = DateFromJdWithTz(arg'.jd, tz)
          /\ back' = DateFromJd(arg'.unix + UnixEpochJd - tz)
    /\ UNCHANGED <<sky, gday, cyear, cyear2, cmonth, cday>>

NextTz == DateFromInstantStep
SpecTz == InitTz /\ [][NextTz]_vars

\* C29 as stated: for every whole-hour timezone in -12..14 and every instant
\* x with midnight_jd(d, tz) <= x < midnight_jd(succ(d), tz), noon_jd(d, tz)
\* among them, from_jd_with_tz(x, tz) is d, and from_unix_time_with_tz of
\* the same instant is d.
C29_InstantInItsDay ==
    (pc = "tz") =>
        /\ arg.jd >= MidnightJd(date, arg.tz)
        /\ arg.jd < MidnightJd(DateSucc(date), arg.tz)
        /\ conv = date
        /\ back = date

\* what the code computes: both conversions take the timezone off once more,
\* so the day they return is that of the instant 2 tz hours earlier
TzTakenOffTwice ==
    (pc = "tz") =>
        /\ conv = date + Floor(arg.hour - 2 * arg.tz, HoursPerDay)
        /\ back = conv
        /\ (arg.hour = 12) => (arg.jd = NoonJd(date, arg.tz))
        /\ (arg.hour = 12) => ((conv = date) <=> (arg.tz > -6 /\ arg.tz <= 6))

----------------------------------------------------------------------------
(* The opening month of a solstice period, checked under SpecYear *)

\* the period p of the year opens with the month that holds its opening
\* winter solstice, a mid-term, and its leap index is not 0
OpensWithSolstice(s, ws, p) ==
    IsSome(p) =>
        /\ IsSome(ws)
        /\ Len(p[1].data) >= 1
        /\ p[1].first <= ws[1] /\ ws[1] < p[1].first + p[1].data[1]
        /\ DateSolarTerm(s, ws[1], BEIJING_TZ) = Some(WinterSolstice)
        /\ IsMidTerm(WinterSolstice)
        /\ DateLunarPhase(s, p[1].first, BEIJING_TZ) = NewMoon
        /\ p[1].leap # Some(0)

PeriodOpensWithSolstice(s, year) ==
    OpensWithSolstice(s, GetWinterSolstice(s, year - 1, BEIJING_TZ),
                      CalcChineseYearPeriodData(s, year))

\* C30: the first month of each of the two solstice periods of a year
\* starts on a new-moon day and contains the period's opening winter
\* solstice, so it holds a mid-term and the period's leap index is never 0;
\* the leap_month of a year the builder returns is one of 1..12, or 13 for
\* no leap month, and never 0.
C30_LeapIndexNeverZero ==
    (pc = "from_y") =>
        /\ PeriodOpensWithSolstice(sky, arg.year)
        /\ PeriodOpensWithSolstice(sky, arg.year + 1)
        /\ IsSome(cyear) => cyear[1].leap_month \in (1..12) \cup {13}

\* a year whose leap month is the month right after the one that holds the
\* winter solstice: leap index 1 in the second period, leap_month 11
C30_Witness ==
    /\ pc = "from_y" /\ IsSome(cyear)
    /\ cyear[1].leap_month = 11
    /\ CalcChineseYearPeriodData(sky, arg.year + 1)[1].leap = Some(1)

====
